---------------------------- MODULE Spec2Model ----------------------------
(***************************************************************************)
(* PageMedic web crawler: the crawl run (handleCrawl), the discovery run   *)
(* (GET of the discover route) and the part of the useCrawler hook that    *)
(* stops a crawl.                                                          *)
(***************************************************************************)
EXTENDS Integers, Sequences, FiniteSets, TLC

(***************************************************************************)
(* URLs.  A URL string is modelled by its parts: the origin (a sequence of *)
(* characters, so that String.startsWith is a prefix test), the path       *)
(* segments, the extension of the last segment and the fragment.           *)
(***************************************************************************)
MkUrl(o, p, e, h) == [org |-> o, path |-> p, ext |-> e, hash |-> h]

NoUrl == MkUrl(<<>>, <<>>, "", "")

SiteOrigin == <<"s">>
ExtOrigin == <<"x">>

Home == MkUrl(SiteOrigin, <<>>, "", "")
HomeTop == MkUrl(SiteOrigin, <<>>, "", "top")
PageA == MkUrl(SiteOrigin, <<"a">>, "", "")
PageAFrag == MkUrl(SiteOrigin, <<"a">>, "", "sec")
PageB == MkUrl(SiteOrigin, <<"b">>, "", "")
Doc == MkUrl(SiteOrigin, <<"d">>, "pdf", "")
Img1 == MkUrl(SiteOrigin, <<"i">>, "png", "")
ExtPage == MkUrl(ExtOrigin, <<"e">>, "", "")
SitemapXml == MkUrl(SiteOrigin, <<"sitemap">>, "xml", "")

\* Pages that only the sitemaps of the site list.
PageAB == MkUrl(SiteOrigin, <<"a", "b">>, "", "")
PageC == MkUrl(SiteOrigin, <<"c">>, "", "")
PageCD == MkUrl(SiteOrigin, <<"c", "d">>, "", "")
PageCDE == MkUrl(SiteOrigin, <<"c", "d", "e">>, "", "")
PageD == MkUrl(SiteOrigin, <<"d">>, "", "")

\* A page of another host whose name starts with the site's host name.
Lookalike == MkUrl(SiteOrigin \o <<".evil">>, <<"c">>, "", "")

\* A start URL that new URL() rejects: a path with no scheme and host.
BadUrl == MkUrl(<<>>, <<"a">>, "", "")

\* Pages of other hosts: of a host of the skip list, of a subdomain of it,
\* and one that a page links to from inside its nav.
Twitter == MkUrl(<<"twitter.com">>, <<"t">>, "", "")
MobileTwitter == MkUrl(<<"m", ".", "twitter.com">>, <<"t">>, "", "")
ExtNav == MkUrl(ExtOrigin, <<"n">>, "", "")

\* A page no other page links to: its content links to a PDF, twice with the
\* same text, and to /b.
Library == MkUrl(SiteOrigin, <<"l">>, "", "")

\* A page only the library page links to; both show the same image.
Gallery == MkUrl(SiteOrigin, <<"g">>, "", "")

\* Pseudo pages that registerLink is given as foundOnPage.
StartMarker == MkUrl(<<"[Start URL]">>, <<>>, "", "")
UnknownSource == MkUrl(<<"[Unknown source]">>, <<>>, "", "")

AllUrls ==
  {Home, HomeTop, PageA, PageAFrag, PageB, Doc, Img1, ExtPage, SitemapXml, Library,
   Gallery}

NON_HTML_EXTENSIONS == {"pdf", "png", "svg", "xml", "css", "js"}

IsPrefix(s, t) == Len(s) <= Len(t) /\ SubSeq(t, 1, Len(s)) = s

\* new URL(url) throws for a string with no scheme and host.
Parsable(u) == u.org # <<>>

\* url.startsWith(origin)
StartsWithOrigin(u, origin) == IsPrefix(origin, u.org)

isNonHtmlResource(u) == Parsable(u) /\ u.ext \in NON_HTML_EXTENSIONS

\* URL.toString() writes the host in lower case.
SerializedOrigin(o) == [i \in 1..Len(o) |-> IF o[i] = "S" THEN "s" ELSE o[i]]

cleanUrl_KeepsHash(u) == IF Parsable(u) THEN [u EXCEPT !.org = SerializedOrigin(@)] ELSE u

\* The hash "" is a string without "#"; the hash "#" is a bare "#" at its end.
cleanUrl(u) ==
  IF Parsable(u) THEN [u EXCEPT !.org = SerializedOrigin(@), !.hash = ""] ELSE u

isHashOnlyOrAnchor(u) ==
  IF Parsable(u) THEN u.hash # "" /\ u.path = <<>> /\ u.ext = ""
  ELSE u.hash # ""

\* url.toLowerCase().includes(".svg")
IsSvg(u) == u.ext = "svg"

SKIP_EXTERNAL_DOMAINS == {<<"twitter.com">>, <<"facebook.com">>}

\* hostname.endsWith(tail)
EndsWith(host, tail) ==
  Len(tail) <= Len(host) /\ SubSeq(host, Len(host) - Len(tail) + 1, Len(host)) = tail

shouldSkipExternalCheck_ExactHostOnly(u) == Parsable(u) /\ u.org \in SKIP_EXTERNAL_DOMAINS

shouldSkipExternalCheck(u) ==
  /\ Parsable(u)
  /\ \E domain \in SKIP_EXTERNAL_DOMAINS :
       u.org = domain \/ EndsWith(u.org, << "." >> \o domain)

(***************************************************************************)
(* Error texts are sequences of tokens; a pattern is a sequence of lower   *)
(* case tokens and matches a text that holds it as a contiguous run,       *)
(* whatever the case (the patterns carry the i flag).                      *)
(***************************************************************************)
Lower(t) ==
  CASE t = "CORS" -> "cors"
    [] t = "Mixed" -> "mixed"
    [] t = "Content" -> "content"
    [] t = "ERR_ABORTED" -> "err_aborted"
    [] t = "ERR_BLOCKED" -> "err_blocked"
    [] t = "ERR_FAILED" -> "err_failed"
    [] t = "SecurityError" -> "securityerror"
    [] OTHER -> t

LowerSeq(s) == [i \in 1..Len(s) |-> Lower(s[i])]

Includes(text, pat) ==
  \E i \in 1..Len(text) :
    i + Len(pat) - 1 <= Len(text) /\ SubSeq(text, i, i + Len(pat) - 1) = pat

IGNORE_ERROR_PATTERNS ==
  { <<"cors">>, <<"access-control-allow-origin">>, <<"cross-origin">>,
    <<"net::", "err_aborted">>, <<"net::", "err_blocked">>,
    <<"net::", "err_failed">>, <<"securityerror">>, <<"mixed", "content">>,
    <<"insecure", "content">> }

shouldIgnoreError_CaseSensitive(message) ==
  \E pat \in IGNORE_ERROR_PATTERNS : Includes(message, pat)

shouldIgnoreError(message) ==
  \E pat \in IGNORE_ERROR_PATTERNS : Includes(LowerSeq(message), pat)

\* A console text: its words, and the "status of NNN" and URL it embeds
\* (status 0 and NoUrl when it embeds none).
ConsoleText(w, st, u) == [words |-> w, status |-> st, url |-> u]

\* parse404FromConsoleError: NoUrl stands for null.
parse404FromConsoleError(msg) ==
  IF shouldIgnoreError(msg.words) THEN [url |-> NoUrl, status |-> 0]
  ELSE IF msg.status >= 400 /\ msg.status < 500 /\ msg.url # NoUrl
       THEN [url |-> msg.url, status |-> msg.status]
       ELSE [url |-> NoUrl, status |-> 0]

\* getResourceType(url, contentType) with an empty or image content type.
getResourceType(u, isImageContent) ==
  IF ~Parsable(u) THEN "link"
  ELSE IF u.hash # "" /\ u.ext = "" THEN "link"
  ELSE IF u.ext \in {"png", "svg"} THEN "image"
  ELSE IF u.ext = "pdf" THEN "document"
  ELSE IF isImageContent THEN "image"
  ELSE IF u.ext = "" THEN "link"
  ELSE "other"


(***************************************************************************)
(* The site that is crawled: the anchors and images of each rendered page. *)
(* scope is the container an element sits in (what a CSS selector picks),  *)
(* isInHeader whether it is inside header or nav.                          *)
(***************************************************************************)
Anchor(h, t, hdr, sc) == [href |-> h, text |-> t, isInHeader |-> hdr, scope |-> sc]
Image(s, a, sc) == [src |-> s, alt |-> a, scope |-> sc]

PageLinks(page) ==
  CASE page = Home ->
         << Anchor(PageB, "b", FALSE, "main"),
            Anchor(PageAFrag, "a", FALSE, "main"),
            Anchor(ExtPage, "ext", FALSE, "aside"),
            Anchor(HomeTop, "top", TRUE, "aside"),
            Anchor(Doc, "doc", TRUE, "main"),
            Anchor(Twitter, "tw", FALSE, "main"),
            Anchor(MobileTwitter, "mtw", FALSE, "main"),
            Anchor(ExtNav, "extnav", TRUE, "main") >>
    [] page = PageA ->
         << Anchor(PageB, "b2", FALSE, "main"),
            Anchor(PageA, "self", FALSE, "main"),
            Anchor(Home, "home", TRUE, "aside") >>
    [] page = PageB -> << Anchor(PageA, "back", FALSE, "main") >>
    [] page = Library ->
         << Anchor(Doc, "paper", FALSE, "main"),
            Anchor(PageB, "b3", FALSE, "aside"),
            Anchor(Doc, "paper", FALSE, "main"),
            Anchor(Gallery, "gallery", FALSE, "main") >>
    [] OTHER -> << >>

PageImages(page) ==
  CASE page = Home -> << Image(Img1, "one", "aside") >>
    [] page \in {Library, Gallery} -> << Image(Img1, "logo", "aside") >>
    [] OTHER -> << >>

\* The sitemap the site serves (parseSitemap returns its distinct <loc>s).
SitemapLocs == << Home, PageA, Doc >>

\* buildScopedSelector: an element is selected when one of the comma
\* separated base selectors holds it; the empty selector selects all.
InScope(el, cssSelector) == cssSelector = {} \/ el.scope \in cssSelector

extractLinksWithContext(page, cssSelector) ==
  SelectSeq(PageLinks(cleanUrl(page)), LAMBDA l : InScope(l, cssSelector))

extractImagesWithContext(page, cssSelector) ==
  SelectSeq(PageImages(cleanUrl(page)), LAMBDA i : InScope(i, cssSelector))

(***************************************************************************)
(* Bounds of the model.                                                    *)
(***************************************************************************)
MaxCallbacks == 1

\* Inputs of a run.
StartUrls == {Home, PageAFrag, BadUrl}
Selectors == {{}, {"main"}}
Selections == {<< PageA >>, << PageB, PageA >>, << PageB >>}
AllDiscovered == {Home, PageA}

\* Outcomes of a navigation and of a HEAD request.
NavOutcomes == {"ok", "notfound", "throw"}
\* The status of the response of a navigation; 0 stands for a goto that threw.
NavStatus(outcome) ==
  IF outcome = "notfound" THEN 404 ELSE IF outcome = "ok" THEN 200 ELSE 0
HeadStatuses == {200, 404, 0}

VARIABLES
  \* inputs of handleCrawl
  startUrl, sitemapUrl, isSelectiveMode, selectedUrls, allDiscoveredUrls, cssSelector,
  \* handleCrawl's locals
  pc, browser, queue, visited, checkedResources, linkRegistry,
  totalCrawled, brokenLinksCount, brokenImagesCount, navigationIssuesCount,
  currentPageUrl, isFirstPage, url, linksToValidate, externalLinks, images,
  curImg,
  \* createSSEResponse and its consumer
  stream, isClosed, consumerGone,
  \* history: findings handed to sendEvent, page.goto calls with the status
  \* they returned, listener calls, the last input the run was handed, the
  \* checkUrlStatus calls that returned, how the load of the sitemap ended
  emitted, navLog, callbacks, lastCb, headLog, sitemapLoad,
  \* useCrawler; stoppedAt is where the run was when Stop was pressed
  phase, stoppedAt,
  \* discovery run
  dpc, dStartUrl, dHasSitemap, dSelector, discoveredLinks, dVisited, pagesToVisit,
  pagesVisited, sitemapLinksCount, newLinksFromPages, dBrowser, dUrl,
  dStream, dIsClosed, dNavLog, dDone,
  \* history: the <loc>s the sitemap fetches of the discovery run gave
  dFetched,
  \* a function on its own: the arguments it is called with, its results
  fnArgs, fnResults,
  \* the loop over the child sitemaps of a sitemap index: what each child
  \* serves, the loop index i and the state of each child's fetchXml
  childSitemapUrls, batchStart, fetchState,
  \* useCrawler's state; hookLinks is its discoveredLinks, reading whether
  \* startCrawlWithSelection's reader loop runs, prevPhase the phase before
  \* the last setPhase
  eventSource, discoveryEventSource, isCrawling, hookLinks, selectedLinks,
  pendingStartUrl, reading, prevPhase,
  \* an emitter on its own: the calls of controller.close(), and the calls
  \* of sendEvent and close made on the closed emitter
  controllerCloses, lateCalls

inputVars == << startUrl, sitemapUrl, isSelectiveMode, selectedUrls, allDiscoveredUrls, cssSelector >>
loopVars == << pc, browser, queue, visited, checkedResources, linkRegistry,
               totalCrawled, brokenLinksCount, brokenImagesCount, navigationIssuesCount,
               currentPageUrl, isFirstPage, url, linksToValidate, externalLinks, images,
               curImg >>
sseVars == << stream, isClosed, consumerGone >>
histVars == << emitted, navLog, callbacks, lastCb, headLog,
               sitemapLoad >>
clientVars == << phase, stoppedAt >>
discVars == << dpc, dStartUrl, dHasSitemap, dSelector, discoveredLinks, dVisited, pagesToVisit,
               pagesVisited, sitemapLinksCount, newLinksFromPages, dBrowser, dUrl,
               dStream, dIsClosed, dNavLog, dDone, dFetched >>
crawlVars == << inputVars, loopVars, sseVars, histVars, clientVars >>
fnVars == << fnArgs, fnResults >>
idxVars == << childSitemapUrls, batchStart, fetchState >>
hookVars == << eventSource, discoveryEventSource, isCrawling, hookLinks, selectedLinks,
              pendingStartUrl, reading, prevPhase >>
emitVars == << controllerCloses, lateCalls >>
vars == << crawlVars, discVars, fnVars, idxVars, hookVars, emitVars >>

\* LinkReference
Ref(page, text, ctx) == [foundOnPage |-> page, linkText |-> text, elementContext |-> ctx]

\* registerLink without its check for a duplicate.
registerLink_NoDedup(reg, u, ref) == [reg EXCEPT ![u] = Append(@, ref)]

\* registerLink on a registry value
registerLink(reg, u, ref) ==
  IF \E i \in 1..Len(reg[u]) :
       reg[u][i].foundOnPage = ref.foundOnPage /\ reg[u][i].linkText = ref.linkText
  THEN reg
  ELSE [reg EXCEPT ![u] = Append(@, ref)]

getLinkReferences(reg, u) == reg[u]

\* A finding event (broken_link, broken_image, console_error, navigation_issue).
Finding(type, u, page, text, status) ==
  [type |-> type, url |-> u, foundOnPage |-> page, linkText |-> text, statusCode |-> status,
   message |-> << >>]

\* A console_error event: the message verbatim and the page it came from.
ConsoleFinding(words, page, kind) ==
  [type |-> "console_error", url |-> NoUrl, foundOnPage |-> page, linkText |-> kind,
   statusCode |-> 0, message |-> words]

\* One finding per reference of u.
PerReference(type, u, refs, status) ==
  [i \in 1..Len(refs) |-> Finding(type, u, refs[i].foundOnPage, refs[i].linkText, status)]

TypesOf(evs) == [i \in 1..Len(evs) |-> evs[i].type]

Logs(n) == [i \in 1..n |-> "log"]

\* sendEvent, for a sequence of event types sent in a row: nothing once
\* closed; an enqueue on a stream the consumer cancelled throws and closes.
\* stream records the findings and terminal events enqueued, in order; log
\* events are enqueued like them and are not recorded.
SendStream_IgnoresClosed(types) ==
  IF consumerGone THEN stream
  ELSE stream \o SelectSeq(types, LAMBDA t : t # "log")

\* sendEvent that loses the error event.
SendStream_LosesError(types) ==
  IF isClosed \/ consumerGone THEN stream
  ELSE stream \o SelectSeq(types, LAMBDA t : t \notin {"log", "error"})

SendStream(types) ==
  IF isClosed \/ consumerGone THEN stream
  ELSE stream \o SelectSeq(types, LAMBDA t : t # "log")

SendClosed(types) ==
  IF ~isClosed /\ consumerGone /\ types # << >> THEN TRUE ELSE isClosed

EmptyRegistry == [u \in AllUrls |-> << >>]

NoCb == [kind |-> "none", words |-> << >>, status |-> 0]

\* The payload of the done event of a discovery run, before there is one.
NoDone == [links |-> << >>, total |-> 0, fromSitemap |-> 0, fromPages |-> 0,
           pagesScanned |-> 0]

NoImg == [src |-> NoUrl, alt |-> "", scope |-> "", load |-> ""]

\* A call of checkUrlStatus: the URL, the page being processed and the link
\* text or alt text it was made for (NoUrl and "" for a queued resource).
HeadCall(u, page, text, kind) == [url |-> u, page |-> page, text |-> text, kind |-> kind]

DiscIdle ==
  /\ dpc = "off"
  /\ dStartUrl = NoUrl
  /\ dHasSitemap = FALSE
  /\ dSelector = {}
  /\ discoveredLinks = {}
  /\ dVisited = {}
  /\ pagesToVisit = << >>
  /\ pagesVisited = 0
  /\ sitemapLinksCount = 0
  /\ newLinksFromPages = 0
  /\ dBrowser = "none"
  /\ dUrl = NoUrl
  /\ dStream = << >>
  /\ dIsClosed = FALSE
  /\ dNavLog = << >>
  /\ dDone = NoDone
  /\ dFetched = << >>

\* No function is looked at on its own.
FnIdle ==
  /\ fnArgs = << >>
  /\ fnResults = << >>

IdxIdle ==
  /\ childSitemapUrls = << >>
  /\ batchStart = 0
  /\ fetchState = << >>

\* The hook's state before its first call.
HookIdle ==
  /\ eventSource = "null"
  /\ discoveryEventSource = "null"
  /\ isCrawling = FALSE
  /\ hookLinks = << >>
  /\ selectedLinks = {}
  /\ pendingStartUrl = NoUrl
  /\ reading = FALSE
  /\ prevPhase = "none"

\* No emitter is looked at on its own.
EmitIdle ==
  /\ controllerCloses = 0
  /\ lateCalls = 0

\* The state when handleCrawl is entered: the client has posted the crawl
\* request and is in phase crawling.
\* The locals of handleCrawl and the stream before the handler runs.
LoopInitial ==
  /\ pc = "start"
  /\ browser = "none"
  /\ queue = << >>
  /\ visited = {}
  /\ checkedResources = {}
  /\ linkRegistry = EmptyRegistry
  /\ totalCrawled = 0
  /\ brokenLinksCount = 0
  /\ brokenImagesCount = 0
  /\ navigationIssuesCount = 0
  /\ currentPageUrl = startUrl
  /\ isFirstPage = TRUE
  /\ url = NoUrl
  /\ linksToValidate = << >>
  /\ externalLinks = << >>
  /\ images = << >>
  /\ curImg = NoImg
  /\ stream = << >>
  /\ isClosed = FALSE
  /\ consumerGone = FALSE
  /\ emitted = << >>
  /\ navLog = << >>
  /\ callbacks = 0
  /\ lastCb = NoCb
  /\ headLog = << >>
  /\ sitemapLoad = "none"
  /\ phase = "crawling"
  /\ stoppedAt = "none"
  /\ DiscIdle
  /\ FnIdle
  /\ IdxIdle
  /\ HookIdle
  /\ EmitIdle

Init ==
  /\ startUrl \in StartUrls
  /\ \/ /\ isSelectiveMode = FALSE
        /\ selectedUrls = << >>
        /\ allDiscoveredUrls = {}
        /\ \/ sitemapUrl = NoUrl /\ cssSelector \in Selectors
           \/ sitemapUrl = SitemapXml /\ cssSelector = {}
     \/ /\ isSelectiveMode = TRUE
        /\ selectedUrls \in Selections
        /\ allDiscoveredUrls = AllDiscovered
        /\ sitemapUrl \in {NoUrl, SitemapXml}
        /\ cssSelector = {}
  /\ LoopInitial

\* The crawl run's variables while the discovery run is looked at.
CrawlIdle ==
  /\ startUrl = NoUrl
  /\ sitemapUrl = NoUrl
  /\ isSelectiveMode = FALSE
  /\ selectedUrls = << >>
  /\ allDiscoveredUrls = {}
  /\ cssSelector = {}
  /\ pc = "off"
  /\ browser = "none"
  /\ queue = << >>
  /\ visited = {}
  /\ checkedResources = {}
  /\ linkRegistry = EmptyRegistry
  /\ totalCrawled = 0
  /\ brokenLinksCount = 0
  /\ brokenImagesCount = 0
  /\ navigationIssuesCount = 0
  /\ currentPageUrl = NoUrl
  /\ isFirstPage = TRUE
  /\ url = NoUrl
  /\ linksToValidate = << >>
  /\ externalLinks = << >>
  /\ images = << >>
  /\ curImg = NoImg
  /\ stream = << >>
  /\ isClosed = FALSE
  /\ consumerGone = FALSE
  /\ emitted = << >>
  /\ navLog = << >>
  /\ callbacks = 0
  /\ lastCb = NoCb
  /\ headLog = << >>
  /\ sitemapLoad = "none"
  /\ stoppedAt = "none"

(***************************************************************************)
(* handleCrawl.                                                            *)
(***************************************************************************)
origin == startUrl.org
hasSitemap == sitemapUrl # NoUrl

InSeq(x, sq) == \E i \in 1..Len(sq) : sq[i] = x

\* sendEvent for the event types of one step, with the findings among them.
Emit(types, finds) ==
  /\ stream' = SendStream(types)
  /\ isClosed' = SendClosed(types)
  /\ emitted' = emitted \o finds

\* The sitemap URLs are each registered with the sitemap as their source.
RECURSIVE RegisterSitemap(_, _)
RegisterSitemap(reg, locs) ==
  IF locs = << >> THEN reg
  ELSE RegisterSitemap(
         registerLink(reg, Head(locs), Ref(sitemapUrl, "[From sitemap]", "<sitemap>")),
         Tail(locs))

\* Seeding of the queue (with the raw start URL or the selection), loading
\* of the sitemap and registration of the start URL.
SeedQueue == IF isSelectiveMode THEN selectedUrls ELSE << startUrl >>

SitemapUrlsOf(locs) == SelectSeq(locs, LAMBDA u : StartsWithOrigin(u, origin))

CrawlStart ==
  /\ pc = "start"
  /\ \E launchOk \in BOOLEAN, fetchOk \in BOOLEAN :
       LET loads == hasSitemap /\ ~isSelectiveMode
           startLogs == Logs(IF cssSelector # {} THEN 2 ELSE 1)
           sitemapUrls == IF loads /\ fetchOk THEN SitemapUrlsOf(SitemapLocs) ELSE << >>
           pages == SelectSeq(sitemapUrls, LAMBDA u : ~isNonHtmlResource(u))
           reg1 == RegisterSitemap(linkRegistry, sitemapUrls)
       IN /\ IF ~launchOk
             THEN /\ fetchOk
                  /\ pc' = "catch"
                  /\ Emit(startLogs, << >>)
                  /\ UNCHANGED << browser, queue, linkRegistry >>
             ELSE IF ~Parsable(startUrl)
             THEN /\ fetchOk
                  /\ pc' = "catch"
                  /\ browser' = "open"
                  /\ queue' = SeedQueue
                  /\ Emit(startLogs, << >>)
                  /\ UNCHANGED linkRegistry
             ELSE /\ (~loads => fetchOk)
                  /\ pc' = "loop"
                  /\ browser' = "open"
                  /\ queue' = SeedQueue \o pages
                  /\ linkRegistry' =
                       registerLink(reg1, startUrl, Ref(StartMarker, "[User provided]", "<input>"))
                  /\ Emit(startLogs \o Logs(IF loads THEN 2 ELSE 0), << >>)
          /\ sitemapLoad' = IF ~launchOk \/ ~Parsable(startUrl) \/ ~loads THEN "none"
                             ELSE IF fetchOk THEN "loaded" ELSE "failed"
  /\ lastCb' = NoCb
  /\ UNCHANGED << inputVars, visited, checkedResources, totalCrawled, brokenLinksCount,
                  brokenImagesCount, navigationIssuesCount, currentPageUrl, isFirstPage,
                  url, linksToValidate, externalLinks, images, curImg, consumerGone,
                  navLog, headLog, callbacks, clientVars, discVars, fnVars, idxVars, hookVars, emitVars >>

ShouldCheckResource_IgnoresChecked(u) == getLinkReferences(linkRegistry, u) # << >>

\* Whether a queued non-page resource is given its existence check.
ShouldCheckResource(u) ==
  getLinkReferences(linkRegistry, u) # << >> /\ u \notin checkedResources

\* queue.shift() and the branches before page.goto.
CrawlDequeue ==
  /\ pc = "loop"
  /\ queue # << >>
  /\ LET u == Head(queue)
     IN /\ queue' = Tail(queue)
        /\ url' = u
        /\ IF u \in visited
           THEN /\ pc' = "loop"
                /\ Emit(<< >>, << >>)
                /\ UNCHANGED << visited, totalCrawled, currentPageUrl, navLog >>
           ELSE IF isNonHtmlResource(u)
           THEN /\ IF ShouldCheckResource(u)
                   THEN pc' = "reshead" /\ UNCHANGED visited
                   ELSE pc' = "loop" /\ visited' = visited \cup {u}
                /\ Emit(<< >>, << >>)
                /\ UNCHANGED << totalCrawled, currentPageUrl, navLog >>
           ELSE /\ visited' = visited \cup {u}
                /\ totalCrawled' = totalCrawled + 1
                /\ currentPageUrl' = u
                /\ navLog' = Append(navLog, [url |-> u, status |-> -1])
                /\ Emit(Logs(1), << >>)
                /\ pc' = "goto"
  /\ lastCb' = NoCb
  /\ UNCHANGED << inputVars, browser, checkedResources, linkRegistry, brokenLinksCount,
                  brokenImagesCount, navigationIssuesCount, isFirstPage, linksToValidate,
                  externalLinks, images, curImg, consumerGone, callbacks, headLog, sitemapLoad, clientVars,
                  discVars, fnVars, idxVars, hookVars, emitVars >>

\* checkUrlStatus of a queued non-page resource returns.
CrawlResourceChecked ==
  /\ pc = "reshead"
  /\ \E status \in HeadStatuses :
       LET references == getLinkReferences(linkRegistry, url)
           finds == IF status >= 400
                    THEN PerReference("broken_link", url, references, status)
                    ELSE << >>
       IN /\ checkedResources' = checkedResources \cup {url}
          /\ brokenLinksCount' = brokenLinksCount + Len(finds)
          /\ Emit(IF status >= 400 THEN TypesOf(finds) ELSE Logs(1), finds)
          /\ lastCb' = [kind |-> "reshead", words |-> << >>, status |-> status]
  /\ headLog' = Append(headLog, HeadCall(url, NoUrl, "", "resource"))
  /\ visited' = visited \cup {url}
  /\ pc' = "loop"
  /\ UNCHANGED << inputVars, browser, queue, linkRegistry, totalCrawled, brokenImagesCount,
                  navigationIssuesCount, currentPageUrl, isFirstPage, url, linksToValidate,
                  externalLinks, images, curImg, consumerGone, navLog, callbacks, sitemapLoad,
                  clientVars, discVars, fnVars, idxVars, hookVars, emitVars >>

\* Whether a cleaned internal link is pushed onto the queue (full mode).
ShouldEnqueue_NoQueueCheck(cleanedUrl, q) ==
  ~isSelectiveMode /\ cleanedUrl \notin visited

ShouldEnqueue_SelectiveToo(cleanedUrl, q) ==
  cleanedUrl \notin visited /\ ~InSeq(cleanedUrl, q)

ShouldEnqueue(cleanedUrl, q) ==
  ~isSelectiveMode /\ cleanedUrl \notin visited /\ ~InSeq(cleanedUrl, q)

ShouldValidate_DiscoveredToo(cleanedUrl, q) ==
  /\ isSelectiveMode
  /\ ~(cleanedUrl \in visited \/ cleanedUrl \in checkedResources)
  /\ ~InSeq(cleanedUrl, selectedUrls)
  /\ ~InSeq(cleanedUrl, q)

\* The selective policy: a link that is neither visited or checked, nor
\* selected, nor among the discovered URLs, nor queued is validated.
ShouldValidate(cleanedUrl, q) ==
  /\ isSelectiveMode
  /\ ~(cleanedUrl \in visited \/ cleanedUrl \in checkedResources)
  /\ ~InSeq(cleanedUrl, selectedUrls)
  /\ cleanedUrl \notin allDiscoveredUrls
  /\ ~InSeq(cleanedUrl, q)

\* The loop over internalLinks: registration, and the queue (full mode) or
\* the links to validate (selective mode).
RECURSIVE ProcessLinks(_, _, _)
ProcessLinks(links, st, pg) ==
  IF links = << >> THEN st
  ELSE LET link == Head(links)
           cleanedUrl == cleanUrl(link.href)
           skipHeader == link.isInHeader /\ (hasSitemap \/ ~isFirstPage)
           reg1 == registerLink(st.reg, cleanedUrl, Ref(pg, link.text, link.scope))
           st1 ==
             IF skipHeader THEN st
             ELSE IF ShouldEnqueue(cleanedUrl, st.queue)
             THEN [reg |-> reg1, queue |-> Append(st.queue, cleanedUrl), ltv |-> st.ltv]
             ELSE IF ShouldValidate(cleanedUrl, st.queue)
             THEN [reg |-> reg1, queue |-> st.queue,
                   ltv |-> Append(st.ltv,
                                  [url |-> cleanedUrl, text |-> link.text,
                                   context |-> link.scope])]
             ELSE [reg |-> reg1, queue |-> st.queue, ltv |-> st.ltv]
       IN ProcessLinks(Tail(links), st1, pg)

InternalLinks(links) ==
  SelectSeq(links, LAMBDA l : StartsWithOrigin(l.href, origin) /\ ~isHashOnlyOrAnchor(l.href))

ExternalLinks(links) ==
  SelectSeq(links, LAMBDA l : /\ Parsable(l.href)
                              /\ ~StartsWithOrigin(l.href, origin)
                              /\ ~l.isInHeader
                              /\ ~shouldSkipExternalCheck(l.href))

StageAfter_NeverLoops(ltv, ext, imgs) ==
  IF ltv # << >> THEN "validate"
  ELSE IF ext # << >> THEN "external"
  ELSE "images"

\* The stage that follows on the page being processed.
StageAfter(ltv, ext, imgs) ==
  IF ltv # << >> THEN "validate"
  ELSE IF ext # << >> THEN "external"
  ELSE IF imgs # << >> THEN "images"
  ELSE "loop"

\* The references a page that answered >= 400 is reported against.
BrokenPageFindings(u, status) ==
  LET references == getLinkReferences(linkRegistry, u)
  IN IF u \in checkedResources THEN << >>
     ELSE IF references # << >> THEN PerReference("broken_link", u, references, status)
     ELSE << Finding("broken_link", u, UnknownSource, "[Unknown]", status) >>

NavigationFindings(u) ==
  LET references == getLinkReferences(linkRegistry, u)
  IN IF references # << >> /\ u \notin checkedResources
     THEN PerReference("navigation_issue", u, references, 0)
     ELSE << >>

SkipsExtraction_ServerErrorsOnly(status) == status >= 500

\* Whether the response of the navigation ends the page's processing.
SkipsExtraction(status) == status >= 400

\* page.goto returns or throws; the page's links are extracted and walked.
CrawlGotoReturn ==
  /\ pc = "goto"
  /\ \E outcome \in NavOutcomes :
       /\ navLog' = [navLog EXCEPT ![Len(navLog)].status = NavStatus(outcome)]
       /\ CASE outcome = "throw" ->
              LET finds == NavigationFindings(url)
              IN /\ navigationIssuesCount' = navigationIssuesCount + Len(finds)
                 /\ checkedResources' =
                      IF finds # << >> THEN checkedResources \cup {url} ELSE checkedResources
                 /\ Emit(Logs(1) \o TypesOf(finds) \o Logs(IF queue # << >> THEN 1 ELSE 0),
                         finds)
                 /\ pc' = "loop"
                 /\ UNCHANGED << queue, linkRegistry, brokenLinksCount, isFirstPage,
                                 linksToValidate, externalLinks, images >>
         [] outcome # "throw" /\ SkipsExtraction(NavStatus(outcome)) ->
              LET finds == BrokenPageFindings(url, NavStatus(outcome))
              IN /\ brokenLinksCount' = brokenLinksCount + Len(finds)
                 /\ checkedResources' = checkedResources \cup {url}
                 /\ Emit(Logs(1) \o TypesOf(finds), finds)
                 /\ pc' = "loop"
                 /\ UNCHANGED << queue, linkRegistry, navigationIssuesCount, isFirstPage,
                                 linksToValidate, externalLinks, images >>
         [] outcome # "throw" /\ ~SkipsExtraction(NavStatus(outcome)) ->
              LET links == extractLinksWithContext(url, cssSelector)
                  st == ProcessLinks(InternalLinks(links),
                                     [reg |-> linkRegistry, queue |-> queue, ltv |-> << >>],
                                     url)
                  ext == ExternalLinks(links)
                  imgs == extractImagesWithContext(url, cssSelector)
                  stage == StageAfter(st.ltv, ext, imgs)
              IN /\ linkRegistry' = st.reg
                 /\ queue' = st.queue
                 /\ linksToValidate' = st.ltv
                 /\ externalLinks' = ext
                 /\ images' = imgs
                 /\ isFirstPage' = FALSE
                 /\ pc' = stage
                 /\ Emit(Logs(IF stage = "loop" /\ st.queue = << >> THEN 2 ELSE 3), << >>)
                 /\ UNCHANGED << checkedResources, brokenLinksCount, navigationIssuesCount >>
  /\ lastCb' = NoCb
  /\ UNCHANGED << inputVars, browser, visited, totalCrawled, brokenImagesCount,
                  currentPageUrl, url, curImg, consumerGone, callbacks, headLog, sitemapLoad,
                  clientVars, discVars, fnVars, idxVars, hookVars, emitVars >>

\* The "pages remaining" log at the end of a page's processing.
RemainingLogs(stage) == Logs(IF stage = "loop" /\ queue # << >> THEN 1 ELSE 0)

\* One link of linksToValidate: a HEAD request unless already checked.
CrawlValidateStep ==
  /\ pc = "validate"
  /\ linksToValidate # << >>
  /\ LET link == Head(linksToValidate)
         skip == link.url \in checkedResources
         stage == StageAfter(Tail(linksToValidate), externalLinks, images)
     IN \E status \in (IF skip THEN {0} ELSE HeadStatuses) :
          LET finds ==
                IF skip THEN << >>
                ELSE IF status >= 400
                THEN << Finding("broken_link", link.url, url, link.text, status) >>
                ELSE IF status = 0
                THEN << Finding("navigation_issue", link.url, url, link.text, status) >>
                ELSE << >>
          IN /\ checkedResources' = checkedResources \cup {link.url}
             /\ headLog' = IF skip THEN headLog
                            ELSE Append(headLog, HeadCall(link.url, url, link.text, "validate"))
             /\ brokenLinksCount' =
                  brokenLinksCount + (IF ~skip /\ status >= 400 THEN 1 ELSE 0)
             /\ navigationIssuesCount' =
                  navigationIssuesCount + (IF ~skip /\ status = 0 THEN 1 ELSE 0)
             /\ linksToValidate' = Tail(linksToValidate)
             /\ pc' = stage
             /\ Emit((IF skip THEN << >> ELSE Logs(1))
                       \o (IF finds # << >> THEN TypesOf(finds)
                           ELSE IF skip THEN << >> ELSE Logs(1))
                       \o Logs(IF stage # "validate" THEN 1 ELSE 0)
                       \o RemainingLogs(stage),
                     finds)
  /\ lastCb' = NoCb
  /\ UNCHANGED << inputVars, browser, queue, visited, linkRegistry, totalCrawled,
                  brokenImagesCount, currentPageUrl, isFirstPage, url, externalLinks,
                  images, curImg, consumerGone, navLog, callbacks, sitemapLoad, clientVars, discVars,
                  fnVars, idxVars, hookVars, emitVars >>

\* One external link: a HEAD request unless already checked.
CrawlExternalStep ==
  /\ pc = "external"
  /\ externalLinks # << >>
  /\ LET link == Head(externalLinks)
         skip == link.href \in checkedResources
         stage == StageAfter(<< >>, Tail(externalLinks), images)
     IN \E status \in (IF skip THEN {0} ELSE HeadStatuses) :
          LET finds ==
                IF skip THEN << >>
                ELSE IF status >= 400
                THEN << Finding("broken_link", link.href, url, link.text, status) >>
                ELSE IF status = 0
                THEN << Finding("navigation_issue", link.href, url, link.text, status) >>
                ELSE << >>
          IN /\ checkedResources' = checkedResources \cup {link.href}
             /\ headLog' = IF skip THEN headLog
                            ELSE Append(headLog, HeadCall(link.href, url, link.text, "external"))
             /\ brokenLinksCount' =
                  brokenLinksCount + (IF ~skip /\ status >= 400 THEN 1 ELSE 0)
             /\ navigationIssuesCount' =
                  navigationIssuesCount + (IF ~skip /\ status = 0 THEN 1 ELSE 0)
             /\ externalLinks' = Tail(externalLinks)
             /\ pc' = stage
             /\ Emit((IF skip THEN << >> ELSE Logs(1))
                       \o (IF finds # << >> THEN TypesOf(finds)
                           ELSE IF skip THEN << >> ELSE Logs(1))
                       \o Logs(IF stage # "external" THEN 1 ELSE 0)
                       \o RemainingLogs(stage),
                     finds)
  /\ lastCb' = NoCb
  /\ UNCHANGED << inputVars, browser, queue, visited, linkRegistry, totalCrawled,
                  brokenImagesCount, currentPageUrl, isFirstPage, url, linksToValidate,
                  images, curImg, consumerGone, navLog, callbacks, sitemapLoad, clientVars, discVars,
                  fnVars, idxVars, hookVars, emitVars >>

\* What the rendered DOM says of an image: loaded, incomplete, or complete
\* with naturalWidth 0.
LoadStates == {"loaded", "incomplete", "zero"}

\* The image sources the walk skips before looking at the DOM properties.
SkipImage(src, pg) ==
  \/ src = NoUrl
  \/ src \in checkedResources
  \/ src = pg
  \/ ~Parsable(src)

\* isBroken as the DOM properties decide it.
LooksBroken(src, load) == load = "incomplete" \/ (load = "zero" /\ ~IsSvg(src))

\* Whether a candidate broken image is re-verified with a HEAD request.
NeedsHeadCheck(src) == StartsWithOrigin(src, origin)

\* checkUrlStatus: the result for an answer's status code; 0 stands for a
\* request that failed or timed out.
checkUrlStatus(answer) == [status |-> answer, ok |-> answer # 0 /\ answer < 400]

\* The HEAD result of a candidate broken image: TRUE when it stays broken.
StillBroken_IgnoresHead(headResult) == TRUE

StillBroken(headResult) ==
  ~(headResult.ok \/ (headResult.status >= 200 /\ headResult.status < 400))

ImageStage(rest) == IF rest # << >> THEN "images" ELSE "loop"

\* One image of the page: the checks up to the HEAD request.
CrawlImageBegin ==
  /\ pc = "images"
  /\ images # << >>
  /\ LET img == Head(images)
         stage == ImageStage(Tail(images))
     IN /\ images' = Tail(images)
        /\ \E load \in (IF SkipImage(img.src, url) THEN {"loaded"} ELSE LoadStates) :
             LET isBroken == ~SkipImage(img.src, url) /\ LooksBroken(img.src, load)
             IN IF isBroken /\ NeedsHeadCheck(img.src)
                THEN /\ pc' = "imghead"
                     /\ curImg' = [src |-> img.src, alt |-> img.alt, scope |-> img.scope,
                                    load |-> load]
                     /\ Emit(<< >>, << >>)
                     /\ UNCHANGED << checkedResources, brokenImagesCount >>
                ELSE IF isBroken
                THEN /\ pc' = stage
                     /\ checkedResources' = checkedResources \cup {img.src}
                     /\ brokenImagesCount' = brokenImagesCount + 1
                     /\ Emit(<< "broken_image" >> \o RemainingLogs(stage),
                             << Finding("broken_image", img.src, url, img.alt, 0) >>)
                     /\ UNCHANGED curImg
                ELSE /\ pc' = stage
                     /\ Emit(RemainingLogs(stage), << >>)
                     /\ UNCHANGED << checkedResources, brokenImagesCount, curImg >>
  /\ lastCb' = NoCb
  /\ UNCHANGED << inputVars, browser, queue, visited, linkRegistry, totalCrawled,
                  brokenLinksCount, navigationIssuesCount, currentPageUrl, isFirstPage,
                  url, linksToValidate, externalLinks, consumerGone, navLog, headLog, sitemapLoad, callbacks,
                  clientVars, discVars, fnVars, idxVars, hookVars, emitVars >>

\* The HEAD request of a candidate broken image returns.
CrawlImageChecked ==
  /\ pc = "imghead"
  /\ LET stage == ImageStage(images)
     IN \E status \in HeadStatuses :
          /\ lastCb' = [kind |-> "imghead", words |-> << curImg.load >>, status |-> status]
          /\ pc' = stage
          /\ IF StillBroken(checkUrlStatus(status))
             THEN /\ checkedResources' = checkedResources \cup {curImg.src}
                  /\ brokenImagesCount' = brokenImagesCount + 1
                  /\ Emit(<< "broken_image" >> \o RemainingLogs(stage),
                          << Finding("broken_image", curImg.src, url, curImg.alt, 0) >>)
             ELSE /\ Emit(RemainingLogs(stage), << >>)
                  /\ UNCHANGED << checkedResources, brokenImagesCount >>
  /\ curImg' = NoImg
  /\ headLog' = Append(headLog, HeadCall(curImg.src, url, curImg.alt, "image"))
  /\ UNCHANGED << inputVars, browser, queue, visited, linkRegistry, totalCrawled,
                  brokenLinksCount, navigationIssuesCount, currentPageUrl, isFirstPage,
                  url, linksToValidate, externalLinks, images, consumerGone,
                  navLog, callbacks, sitemapLoad, clientVars, discVars, fnVars, idxVars, hookVars, emitVars >>

\* browser.close()
CloseBrowser_Leak(b) == b

CloseBrowser(b) == IF b = "open" THEN "closed" ELSE b

\* The queue is empty: the loop ends and the browser is closed.
CrawlCloseBrowser ==
  /\ pc = "loop"
  /\ queue = << >>
  /\ browser' = CloseBrowser(browser)
  /\ pc' = "finish"
  /\ Emit(Logs(1), << >>)
  /\ lastCb' = NoCb
  /\ UNCHANGED << inputVars, queue, visited, checkedResources, linkRegistry, totalCrawled,
                  brokenLinksCount, brokenImagesCount, navigationIssuesCount,
                  currentPageUrl, isFirstPage, url, linksToValidate, externalLinks,
                  images, curImg, consumerGone, navLog, headLog, sitemapLoad, callbacks, clientVars, discVars,
                  fnVars, idxVars, hookVars, emitVars >>

\* The done event, then close() of the finally block.
CrawlFinish ==
  /\ pc = "finish"
  /\ stream' = SendStream(<< "done" >>)
  /\ isClosed' = TRUE
  /\ pc' = "done"
  /\ lastCb' = NoCb
  /\ UNCHANGED << inputVars, browser, queue, visited, checkedResources, linkRegistry,
                  totalCrawled, brokenLinksCount, brokenImagesCount, navigationIssuesCount,
                  currentPageUrl, isFirstPage, url, linksToValidate, externalLinks,
                  images, curImg, consumerGone, emitted, navLog, headLog, sitemapLoad, callbacks, clientVars,
                  discVars, fnVars, idxVars, hookVars, emitVars >>

\* The catch block: the error event, browser.close() if launched, close().
CrawlCatch ==
  /\ pc = "catch"
  /\ stream' = SendStream(<< "error" >>)
  /\ isClosed' = TRUE
  /\ browser' = CloseBrowser(browser)
  /\ pc' = "done"
  /\ lastCb' = NoCb
  /\ UNCHANGED << inputVars, queue, visited, checkedResources, linkRegistry,
                  totalCrawled, brokenLinksCount, brokenImagesCount, navigationIssuesCount,
                  currentPageUrl, isFirstPage, url, linksToValidate, externalLinks,
                  images, curImg, consumerGone, emitted, navLog, headLog, sitemapLoad, callbacks, clientVars,
                  discVars, fnVars, idxVars, hookVars, emitVars >>

(***************************************************************************)
(* The page listeners.  They run while the loop awaits, on a loaded page.  *)
(***************************************************************************)
AwaitPcs == {"goto", "reshead", "imghead"}

ListenerEnabled ==
  /\ browser = "open"
  /\ pc \in AwaitPcs
  /\ navLog # << >>
  /\ callbacks < MaxCallbacks

Request(u, rt) == [url |-> u, resourceType |-> rt]

\* The requests a page issues while it loads: the document, every image of
\* its DOM (inside the selector's scope or not) and what its scripts fetch.
PageRequests(page) ==
  { Request(cleanUrl(page), "document") }
    \cup { Request(PageImages(cleanUrl(page))[i].src, "image") :
             i \in 1..Len(PageImages(cleanUrl(page))) }
    \cup (IF cleanUrl(page) = Home THEN { Request(PageB, "fetch"), Request(Doc, "fetch") }
          ELSE IF cleanUrl(page) = Library THEN { Request(Doc, "fetch") }
          ELSE {})

SkippedResourceTypes == {"stylesheet", "font", "script", "media"}

\* Whether the response listener gets past its early returns.
ResponseTracked(req, status) ==
  /\ StartsWithOrigin(req.url, origin)
  /\ status >= 400
  /\ req.url \notin checkedResources
  /\ req.resourceType # "document"
  /\ req.resourceType \notin SkippedResourceTypes
  /\ ~IsSvg(req.url)

\* The response listener without the registry: every finding on the current page.
ResponseFindings_CurrentPageOnly(req, status) ==
  LET type == getResourceType(req.url, FALSE)
  IN IF type = "document" THEN << >>
     ELSE IF type = "image" \/ req.resourceType = "image"
     THEN << Finding("broken_image", req.url, currentPageUrl, "[Detected from network]", status) >>
     ELSE IF type = "link" \/ req.resourceType \in {"fetch", "xhr"}
     THEN << Finding("broken_link", req.url, currentPageUrl, "[Detected from network]", status) >>
     ELSE << >>

\* The findings of the response listener for a tracked response.
ResponseFindings(req, status) ==
  LET type == getResourceType(req.url, FALSE)
      references == getLinkReferences(linkRegistry, req.url)
  IN IF type = "document" THEN << >>
     ELSE IF type = "image" \/ req.resourceType = "image"
     THEN << Finding("broken_image", req.url, currentPageUrl, "[Detected from network]", status) >>
     ELSE IF type = "link" \/ req.resourceType \in {"fetch", "xhr"}
     THEN IF references # << >>
          THEN PerReference("broken_link", req.url, references, status)
          ELSE << Finding("broken_link", req.url, currentPageUrl, "[Detected from network]", status) >>
     ELSE << >>

\* A counter bumped once per failed URL, outside the loop over its references.
CountType_OncePerUrl(finds, type) ==
  IF \E i \in 1..Len(finds) : finds[i].type = type THEN 1 ELSE 0

CountType(finds, type) == Cardinality({i \in 1..Len(finds) : finds[i].type = type})

\* page.on("response")
OnResponse ==
  /\ ListenerEnabled
  /\ \E req \in PageRequests(currentPageUrl), status \in {200, 404} :
       LET tracked == ResponseTracked(req, status)
           finds == IF tracked THEN ResponseFindings(req, status) ELSE << >>
       IN /\ checkedResources' =
               IF tracked THEN checkedResources \cup {req.url} ELSE checkedResources
          /\ brokenImagesCount' = brokenImagesCount + CountType(finds, "broken_image")
          /\ brokenLinksCount' = brokenLinksCount + CountType(finds, "broken_link")
          /\ Emit(TypesOf(finds), finds)
          /\ lastCb' = [kind |-> "response", words |-> << req.resourceType >>,
                        status |-> status, url |-> req.url]
  /\ callbacks' = callbacks + 1
  /\ UNCHANGED << inputVars, pc, browser, queue, visited, linkRegistry, totalCrawled,
                  navigationIssuesCount, currentPageUrl, isFirstPage, url,
                  linksToValidate, externalLinks, images, curImg, consumerGone, navLog, headLog, sitemapLoad,
                  clientVars, discVars, fnVars, idxVars, hookVars, emitVars >>

FailureTexts ==
  { << "net::", "ERR_ABORTED" >>, << "net::", "ERR_NAME_NOT_RESOLVED" >>,
    << "net::", "ERR_CONNECTION", "_REFUSED" >> }

\* The errors the requestfailed listener ignores.
IgnoredFailure(errorText) ==
  \/ shouldIgnoreError(errorText)
  \/ \E tok \in {"ERR_ABORTED", "ERR_BLOCKED", "ERR_FAILED", "ERR_CACHE", "ERR_CONNECTION"} :
       Includes(errorText, << tok >>)

FailureTracked(req, errorText) ==
  /\ StartsWithOrigin(req.url, origin)
  /\ req.url \notin checkedResources
  /\ ~IgnoredFailure(errorText)
  /\ req.resourceType # "document"
  /\ req.resourceType \notin SkippedResourceTypes
  /\ ~IsSvg(req.url)

\* page.on("requestfailed")
OnRequestFailed ==
  /\ ListenerEnabled
  /\ \E req \in PageRequests(currentPageUrl), errorText \in FailureTexts :
       LET tracked == FailureTracked(req, errorText)
           finds ==
             IF tracked /\ req.resourceType = "image"
                /\ Includes(errorText, << "ERR_NAME_NOT_RESOLVED" >>)
             THEN << Finding("broken_image", req.url, currentPageUrl,
                             "[Detected from network]", 0) >>
             ELSE << >>
       IN /\ checkedResources' =
               IF tracked THEN checkedResources \cup {req.url} ELSE checkedResources
          /\ brokenImagesCount' = brokenImagesCount + Len(finds)
          /\ Emit(Logs(IF tracked THEN 1 ELSE 0) \o TypesOf(finds), finds)
          /\ lastCb' = [kind |-> "requestfailed", words |-> errorText, status |-> 0]
  /\ callbacks' = callbacks + 1
  /\ UNCHANGED << inputVars, pc, browser, queue, visited, linkRegistry, totalCrawled,
                  brokenLinksCount, navigationIssuesCount, currentPageUrl, isFirstPage,
                  url, linksToValidate, externalLinks, images, curImg, consumerGone,
                  navLog, headLog, sitemapLoad, clientVars, discVars, fnVars, idxVars, hookVars, emitVars >>

ConsoleTexts ==
  { ConsoleText(<< "Failed", "to", "load", "resource:" >>, 404, PageB),
    ConsoleText(<< "blocked", "by", "CORS", "policy:" >>, 404, PageB),
    ConsoleText(<< "Uncaught", "TypeError" >>, 0, NoUrl) }

\* The secondary findings parsed out of a console error text.
ConsoleParsedFindings(msg) ==
  LET parsed == parse404FromConsoleError(msg)
      type == getResourceType(parsed.url, FALSE)
      references == getLinkReferences(linkRegistry, parsed.url)
  IN IF parsed.url = NoUrl \/ ~StartsWithOrigin(parsed.url, origin)
        \/ parsed.url \in checkedResources
        \/ isNonHtmlResource(parsed.url) \/ IsSvg(parsed.url)
     THEN << >>
     ELSE IF type = "image" /\ parsed.status = 404
     THEN << Finding("broken_image", parsed.url, currentPageUrl,
                     "[Detected from console]", parsed.status) >>
     ELSE IF type = "link"
     THEN IF references # << >>
          THEN PerReference("broken_link", parsed.url, references, parsed.status)
          ELSE << Finding("broken_link", parsed.url, currentPageUrl,
                          "[Detected from console]", parsed.status) >>
     ELSE << >>

\* Whether the console listener claims the parsed URL in checkedResources.
ConsoleClaims(msg) ==
  LET parsed == parse404FromConsoleError(msg)
  IN /\ parsed.url # NoUrl
     /\ StartsWithOrigin(parsed.url, origin)
     /\ parsed.url \notin checkedResources
     /\ ~isNonHtmlResource(parsed.url)
     /\ ~IsSvg(parsed.url)

\* page.on("console") for a message of type error
OnConsole ==
  /\ ListenerEnabled
  /\ \E msg \in ConsoleTexts :
       LET ignored == shouldIgnoreError(msg.words)
           parsedFinds == IF ignored THEN << >> ELSE ConsoleParsedFindings(msg)
           finds == IF ignored THEN << >>
                    ELSE << ConsoleFinding(msg.words, currentPageUrl, "error") >> \o parsedFinds
       IN /\ checkedResources' =
               IF ~ignored /\ ConsoleClaims(msg)
               THEN checkedResources \cup {parse404FromConsoleError(msg).url}
               ELSE checkedResources
          /\ brokenImagesCount' = brokenImagesCount + CountType(finds, "broken_image")
          /\ brokenLinksCount' = brokenLinksCount + CountType(finds, "broken_link")
          /\ Emit(Logs(IF ignored THEN 0 ELSE 1) \o TypesOf(finds), finds)
          /\ lastCb' = [kind |-> "console", words |-> msg.words, status |-> 0]
  /\ callbacks' = callbacks + 1
  /\ UNCHANGED << inputVars, pc, browser, queue, visited, linkRegistry, totalCrawled,
                  navigationIssuesCount, currentPageUrl, isFirstPage, url,
                  linksToValidate, externalLinks, images, curImg, consumerGone, navLog, headLog, sitemapLoad,
                  clientVars, discVars, fnVars, idxVars, hookVars, emitVars >>

PageErrors == { << "ReferenceError" >>, << "SecurityError" >> }

\* page.on("pageerror")
OnPageError ==
  /\ ListenerEnabled
  /\ \E words \in PageErrors :
       /\ Emit(<< "log", "console_error" >>,
               << ConsoleFinding(words, currentPageUrl, "js_error") >>)
       /\ lastCb' = [kind |-> "pageerror", words |-> words, status |-> 0]
  /\ callbacks' = callbacks + 1
  /\ UNCHANGED << inputVars, loopVars, consumerGone, navLog, headLog, sitemapLoad, clientVars, discVars, fnVars, idxVars,
                  hookVars, emitVars >>

(***************************************************************************)
(* The client of the crawl stream (useCrawler).                            *)
(***************************************************************************)
\* handleStop: the fetch is aborted, which cancels the server's stream.
HandleStop ==
  /\ phase = "crawling"
  /\ consumerGone' = TRUE
  /\ phase' = "idle"
  /\ stoppedAt' = pc
  /\ lastCb' = NoCb
  /\ UNCHANGED << inputVars, loopVars, stream, isClosed, emitted, navLog, headLog, sitemapLoad, callbacks, discVars,
                  fnVars, idxVars, hookVars, emitVars >>

\* The reader is given the done or error event.
ClientOnTerminal ==
  /\ phase = "crawling"
  /\ ~consumerGone
  /\ stream # << >>
  /\ stream[Len(stream)] \in {"done", "error"}
  /\ phase' = "idle"
  /\ lastCb' = NoCb
  /\ UNCHANGED << inputVars, loopVars, sseVars, emitted, navLog, headLog, sitemapLoad, callbacks, stoppedAt,
                  discVars, fnVars, idxVars, hookVars, emitVars >>

CrawlNext ==
  \/ CrawlStart
  \/ CrawlDequeue
  \/ CrawlResourceChecked
  \/ CrawlGotoReturn
  \/ CrawlValidateStep
  \/ CrawlExternalStep
  \/ CrawlImageBegin
  \/ CrawlImageChecked
  \/ CrawlCloseBrowser
  \/ CrawlFinish
  \/ CrawlCatch

\* A crawl run with its page listeners, the consumer staying connected.
Next ==
  \/ CrawlNext
  \/ OnResponse
  \/ OnRequestFailed
  \/ OnConsole
  \/ OnPageError
  \/ ClientOnTerminal

Spec == Init /\ [][Next]_vars

\* A crawl run whose user may press Stop at any time.
StopNext ==
  \/ CrawlNext
  \/ HandleStop
  \/ ClientOnTerminal

SpecStop == Init /\ [][StopNext]_vars

\* The run's own steps are taken as long as one is possible: every await
\* of the loop (navigation, HEAD request, browser close) returns.
FairSpecStop == SpecStop /\ WF_vars(CrawlNext)

(***************************************************************************)
(* The discovery run (GET of the discover route).                          *)
(***************************************************************************)
MAX_PAGES_SAFETY == 5000

\* What fetchXml(sitemapUrl) gives: a rejection, a flat sitemap or an index.
SitemapResults == {"fail", "flat", "index"}

\* The child sitemaps of an index the site may serve, each with its <loc>s.
ChildSitemaps == << << Home, PageA >>, << PageB, Doc, PageAFrag >> >>

\* The sitemap indexes the site may serve.
SitemapIndexes ==
  { ChildSitemaps,
    << << PageAB, PageA, PageCDE >>, << PageC, PageCD, PageD >> >>,
    << << PageC, Doc, ExtPage >>, << PageD >> >> }

\* The flat sitemaps the site may serve.
FlatSitemaps == { SitemapLocs, << PageAB, PageA, PageCDE >>, << PageA, Lookalike >> }

\* What the fetches of an index give: the <loc>s of each child, none for a
\* child whose fetch failed.
IndexFetches(children) ==
  { [i \in 1..Len(children) |-> IF ok[i] THEN children[i] ELSE << >>] :
      ok \in [1..Len(children) -> BOOLEAN] }

\* The lists of <loc>s a fetch of the sitemap URL may end with.
SitemapFetches(result) ==
  IF result = "flat" THEN { << locs >> : locs \in FlatSitemaps }
  ELSE IF result = "index" THEN UNION { IndexFetches(children) : children \in SitemapIndexes }
  ELSE { << >> }

\* The order of path segments that localeCompare gives.
SegRank(name) ==
  CASE name = "a" -> 1
    [] name = "b" -> 2
    [] name = "c" -> 3
    [] name = "d" -> 4
    [] name = "e" -> 5
    [] name = "i" -> 6
    [] OTHER -> 7

RECURSIVE PathBefore(_, _)
PathBefore(p, q) ==
  IF p = << >> THEN q # << >>
  ELSE IF q = << >> THEN FALSE
  ELSE IF Head(p) # Head(q) THEN SegRank(Head(p)) < SegRank(Head(q))
  ELSE PathBefore(Tail(p), Tail(q))

LinkBefore_PathOnly(a, b) == PathBefore(a.path, b.path)

\* The comparator of the sort: path depth first, then the path.
LinkBefore(a, b) ==
  IF Len(a.path) # Len(b.path) THEN Len(a.path) < Len(b.path)
  ELSE PathBefore(a.path, b.path)

RECURSIVE SortLinks(_)
SortLinks(S) ==
  IF S = {} THEN << >>
  ELSE LET first == CHOOSE a \in S : \A b \in S \ {a} : ~LinkBefore(b, a)
       IN << first >> \o SortLinks(S \ {first})

dOrigin == dStartUrl.org

\* Whether a sitemap <loc> or a page link is taken as a page of the site.
IsSitePage_OriginOnly(u) == StartsWithOrigin(u, dOrigin)

IsSitePage(u) == StartsWithOrigin(u, dOrigin) /\ ~isNonHtmlResource(u)

\* The <loc>s of one sitemap that count, in order.
CountedLocs(locs) == SelectSeq(locs, LAMBDA u : IsSitePage(u))

CleanedSet(sq) == { cleanUrl(sq[i]) : i \in 1..Len(sq) }

\* The mode of the run: the browser is launched only without a sitemap.
DiscMode_AlwaysBrowser(hasSm) == "launch"

DiscMode(hasSm) == IF hasSm THEN "fetch" ELSE "launch"

DoneEvent(links, fromSm, fromPg, scanned) ==
  [links |-> SortLinks(links), total |-> Cardinality(links), fromSitemap |-> fromSm,
   fromPages |-> fromPg, pagesScanned |-> scanned]

\* sendEvent of the discovery stream.
DSend(types) == IF dIsClosed THEN dStream ELSE dStream \o types

\* The start: the origin, the starting status and the start URL.
DiscStart ==
  /\ dpc = "start"
  /\ IF ~Parsable(dStartUrl)
     THEN /\ dpc' = "catch"
          /\ UNCHANGED << discoveredLinks, dStream >>
     ELSE /\ discoveredLinks' = discoveredLinks \cup {cleanUrl(dStartUrl)}
          /\ dpc' = DiscMode(dHasSitemap)
          /\ dStream' = DSend(<< "status", "status" >>)
  /\ UNCHANGED << crawlVars, fnVars, idxVars, hookVars, emitVars, dFetched, dStartUrl, dHasSitemap,
                  dSelector, dVisited, pagesToVisit, pagesVisited, sitemapLinksCount,
                  newLinksFromPages, dBrowser, dUrl, dIsClosed, dNavLog, dDone >>

\* fetchXml(sitemapUrl) settles; an index has its children fetched (each
\* fetch may fail and then gives no URLs) and merged.
DiscSitemapFetched ==
  /\ dpc = "fetch"
  /\ \E result \in SitemapResults :
       \E lists \in SitemapFetches(result) :
         LET counted == [i \in 1..Len(lists) |-> CountedLocs(lists[i])]
             found == UNION { CleanedSet(counted[i]) : i \in 1..Len(counted) }
             RECURSIVE Total(_)
             Total(i) == IF i = 0 THEN 0 ELSE Len(counted[i]) + Total(i - 1)
             count == sitemapLinksCount + Total(Len(counted))
             links == discoveredLinks \cup found
         IN /\ dFetched' = lists
            /\ IF result = "fail"
               THEN /\ dStream' = DSend(<< "error" >>)
                    /\ UNCHANGED << discoveredLinks, sitemapLinksCount, dDone >>
               ELSE /\ discoveredLinks' = links
                    /\ sitemapLinksCount' = count
                    /\ dDone' = DoneEvent(links, count, 0, 0)
                    /\ dStream' = DSend((IF result = "index" THEN << "status" >> ELSE << >>)
                                          \o << "status", "status", "done" >>)
  /\ dIsClosed' = TRUE
  /\ dpc' = "done"
  /\ UNCHANGED << crawlVars, fnVars, idxVars, hookVars, emitVars, dStartUrl, dHasSitemap, dSelector,
                  dVisited, pagesToVisit, pagesVisited, newLinksFromPages, dBrowser, dUrl,
                  dNavLog >>

\* chromium.launch and the seeding of pagesToVisit with the start URL.
DiscLaunch ==
  /\ dpc = "launch"
  /\ \E launchOk \in BOOLEAN :
       IF launchOk
       THEN /\ dBrowser' = "open"
            /\ pagesToVisit' = << dStartUrl >>
            /\ dpc' = "loop"
       ELSE /\ dpc' = "catch"
            /\ UNCHANGED << dBrowser, pagesToVisit >>
  /\ UNCHANGED << crawlVars, fnVars, idxVars, hookVars, emitVars, dFetched, dStartUrl, dHasSitemap,
                  dSelector, discoveredLinks, dVisited, pagesVisited, sitemapLinksCount,
                  newLinksFromPages, dUrl, dStream, dIsClosed, dNavLog, dDone >>

\* A scanning status for every visited page.
ScanningStatusDue_EveryPage(visitedCount) == TRUE

\* Whether the visit that brings pagesVisited to visitedCount starts with a
\* scanning status event.
ScanningStatusDue(visitedCount) == visitedCount % 5 = 1 \/ visitedCount = 1

\* The loop without its safety limit.
LoopContinues_NoCap(toVisit, visitedCount) == toVisit # << >>

\* The condition of the while loop.
LoopContinues(toVisit, visitedCount) ==
  toVisit # << >> /\ visitedCount < MAX_PAGES_SAFETY

\* pagesToVisit.shift() up to page.goto
DiscDequeue ==
  /\ dpc = "loop"
  /\ LoopContinues(pagesToVisit, pagesVisited)
  /\ LET u == Head(pagesToVisit)
     IN /\ pagesToVisit' = Tail(pagesToVisit)
        /\ IF u \in dVisited
           THEN UNCHANGED << dVisited, pagesVisited, dUrl, dNavLog, dStream, dpc >>
           ELSE /\ dVisited' = dVisited \cup {u}
                /\ pagesVisited' = pagesVisited + 1
                /\ dUrl' = u
                /\ dNavLog' = Append(dNavLog, u)
                /\ dStream' = DSend(IF ScanningStatusDue(pagesVisited + 1)
                                    THEN << "status" >> ELSE << >>)
                /\ dpc' = "goto"
  /\ UNCHANGED << crawlVars, fnVars, idxVars, hookVars, emitVars, dFetched, dStartUrl, dHasSitemap,
                  dSelector, discoveredLinks, sitemapLinksCount, newLinksFromPages, dBrowser,
                  dIsClosed, dDone >>

\* extractLinksFromPage
extractLinksFromPage(page, selector) ==
  LET links == extractLinksWithContext(page, selector)
  IN [i \in 1..Len(links) |-> links[i].href]

\* Whether a cleaned link is new: it is then added to discoveredLinks.
IsNewLink_NoDiscoveredCheck(cleanedLink, discovered) == IsSitePage(cleanedLink)

IsNewLink(cleanedLink, discovered) ==
  IsSitePage(cleanedLink) /\ cleanedLink \notin discovered

\* The loop over the links of a page.
RECURSIVE DiscoverLinks(_, _)
DiscoverLinks(links, st) ==
  IF links = << >> THEN st
  ELSE LET cleanedLink == cleanUrl(Head(links))
           st1 == IF IsNewLink(cleanedLink, st.discovered)
                  THEN [discovered |-> st.discovered \cup {cleanedLink},
                        newLinks |-> st.newLinks + 1,
                        toVisit |-> IF cleanedLink \notin dVisited
                                    THEN Append(st.toVisit, cleanedLink)
                                    ELSE st.toVisit]
                  ELSE st
       IN DiscoverLinks(Tail(links), st1)

\* page.goto returns (whatever the status) or throws.
DiscGotoReturn ==
  /\ dpc = "goto"
  /\ \E outcome \in {"ok", "throw"} :
       LET st0 == [discovered |-> discoveredLinks, newLinks |-> newLinksFromPages,
                   toVisit |-> pagesToVisit]
           st == IF outcome = "ok"
                 THEN DiscoverLinks(extractLinksFromPage(dUrl, dSelector), st0)
                 ELSE st0
           grew == Cardinality(st.discovered) > Cardinality(discoveredLinks)
       IN /\ discoveredLinks' = st.discovered
          /\ newLinksFromPages' = st.newLinks
          /\ pagesToVisit' = st.toVisit
          /\ dStream' = DSend((IF grew THEN << "status" >> ELSE << >>)
                                \o (IF st.toVisit = << >> THEN << "status" >> ELSE << >>))
  /\ dpc' = "loop"
  /\ UNCHANGED << crawlVars, fnVars, idxVars, hookVars, emitVars, dFetched, dStartUrl, dHasSitemap,
                  dSelector, dVisited, pagesVisited, sitemapLinksCount, dBrowser, dUrl,
                  dIsClosed, dNavLog, dDone >>

\* The loop ends: browser.close(), the sort, the done event and close().
DiscFinish ==
  /\ dpc = "loop"
  /\ ~LoopContinues(pagesToVisit, pagesVisited)
  /\ dBrowser' = "closed"
  /\ dDone' = DoneEvent(discoveredLinks, 0, newLinksFromPages, pagesVisited)
  /\ dStream' = DSend(<< "done" >>)
  /\ dIsClosed' = TRUE
  /\ dpc' = "done"
  /\ UNCHANGED << crawlVars, fnVars, idxVars, hookVars, emitVars, dFetched, dStartUrl, dHasSitemap,
                  dSelector, discoveredLinks, dVisited, pagesToVisit, pagesVisited,
                  sitemapLinksCount, newLinksFromPages, dUrl, dNavLog >>

\* The outer catch block: the error event, browser.close() if launched, close().
DiscCatch ==
  /\ dpc = "catch"
  /\ dStream' = DSend(<< "error" >>)
  /\ dBrowser' = CloseBrowser(dBrowser)
  /\ dIsClosed' = TRUE
  /\ dpc' = "done"
  /\ UNCHANGED << crawlVars, fnVars, idxVars, hookVars, emitVars, dFetched, dStartUrl, dHasSitemap,
                  dSelector, discoveredLinks, dVisited, pagesToVisit, pagesVisited,
                  sitemapLinksCount, newLinksFromPages, dUrl, dNavLog, dDone >>

DiscStartUrls == {Home, PageAFrag, PageB, BadUrl}

InitDisc ==
  /\ CrawlIdle
  /\ FnIdle
  /\ IdxIdle
  /\ HookIdle
  /\ EmitIdle
  /\ phase = "discovering"
  /\ dpc = "start"
  /\ dStartUrl \in DiscStartUrls
  /\ dHasSitemap \in BOOLEAN
  /\ dSelector \in Selectors
  /\ discoveredLinks = {}
  /\ dVisited = {}
  /\ pagesToVisit = << >>
  /\ pagesVisited = 0
  /\ sitemapLinksCount = 0
  /\ newLinksFromPages = 0
  /\ dBrowser = "none"
  /\ dUrl = NoUrl
  /\ dStream = << >>
  /\ dIsClosed = FALSE
  /\ dNavLog = << >>
  /\ dDone = NoDone
  /\ dFetched = << >>

DiscNext ==
  \/ DiscStart
  \/ DiscSitemapFetched
  \/ DiscLaunch
  \/ DiscDequeue
  \/ DiscGotoReturn
  \/ DiscFinish
  \/ DiscCatch

SpecDisc == InitDisc /\ [][DiscNext]_vars

(***************************************************************************)
(* Properties of the crawl run.                                            *)
(***************************************************************************)
\* The broken_link events emitted for u.
BrokenLinkEvents(u) ==
  { i \in 1..Len(emitted) : emitted[i].type = "broken_link" /\ emitted[i].url = u }

\* The pages whose navigation answered with a status >= 400.
BrokenPages == { navLog[i].url : i \in { j \in 1..Len(navLog) : navLog[j].status >= 400 } }

\* C1: when the run is over, every navigated page that answered >= 400 and
\* has referrers in the registry has exactly one broken_link event per
\* referrer, each event carrying that referrer's foundOnPage and linkText.
OneBrokenLinkPerReferrer ==
  pc = "done" =>
    \A u \in BrokenPages :
      LET refs == getLinkReferences(linkRegistry, u)
      IN refs # << >> =>
         /\ Cardinality(BrokenLinkEvents(u)) = Len(refs)
         /\ \A r \in 1..Len(refs) :
              \E i \in BrokenLinkEvents(u) :
                /\ emitted[i].foundOnPage = refs[r].foundOnPage
                /\ emitted[i].linkText = refs[r].linkText

\* Whether a finding's URL is an anchor or an image of some page inside the
\* selector's scope.
TargetInScope(f) ==
  \E page \in AllUrls :
    \/ \E i \in 1..Len(PageLinks(page)) :
         cleanUrl(PageLinks(page)[i].href) = f.url /\ InScope(PageLinks(page)[i], cssSelector)
    \/ \E i \in 1..Len(PageImages(page)) :
         PageImages(page)[i].src = f.url /\ InScope(PageImages(page)[i], cssSelector)

\* C2: with a CSS selector, every broken_link and broken_image event refers
\* to an anchor or image inside the selector's scope (the start URL itself,
\* which the user gave, aside).
ScopedFindingsOnly ==
  cssSelector # {} =>
    \A i \in 1..Len(emitted) :
      emitted[i].type \in {"broken_link", "broken_image"} =>
        emitted[i].url = startUrl \/ TargetInScope(emitted[i])

CountIn(u, sq) == Cardinality({ i \in 1..Len(sq) : sq[i] = u })

OneNavigationPerCanonicalUrl ==
  \A i, j \in 1..Len(navLog) :
    i # j => cleanUrl(navLog[i].url) # cleanUrl(navLog[j].url)

\* Whether a text contains, whatever its case, a pattern of the classifier.
MatchesClassifier(words) ==
  \E pat \in IGNORE_ERROR_PATTERNS :
    \E i \in 1..Len(words) :
      /\ i + Len(pat) - 1 <= Len(words)
      /\ \A k \in 1..Len(pat) : Lower(words[i + k - 1]) = pat[k]

\* C5: a console error or a failed request whose text matches a pattern of
\* the classifier sends no finding: nothing is emitted, no counter moves and
\* no URL is claimed as checked.
ClassifiedNoiseSendsNoFinding ==
  [][(lastCb'.kind \in {"console", "requestfailed"} /\ MatchesClassifier(lastCb'.words)) =>
       /\ emitted' = emitted
       /\ stream' = stream
       /\ brokenLinksCount' = brokenLinksCount
       /\ brokenImagesCount' = brokenImagesCount
       /\ checkedResources' = checkedResources]_vars

\* A console error naming CORS together with a 404 of a page was handed to
\* the listener.
ClassifiedNoiseReached ==
  /\ lastCb.kind = "console"
  /\ MatchesClassifier(lastCb.words)
  /\ emitted = << >>

\* C6: when the HEAD request for an image the DOM shows as not loaded, of
\* the site's origin, answers 200..399, the image walk sends no broken_image.
ReachableImageNotReported ==
  [][(pc = "imghead" /\ curImg.load = "incomplete" /\ StartsWithOrigin(curImg.src, origin)
        /\ lastCb'.kind = "imghead" /\ lastCb'.status >= 200 /\ lastCb'.status < 400) =>
       /\ emitted' = emitted
       /\ brokenImagesCount' = brokenImagesCount
       /\ stream' = stream]_vars

\* The HEAD request of a same-origin image with complete = false answered
\* 200 and no broken_image was sent for it.
ReachableImageReached ==
  /\ lastCb.kind = "imghead"
  /\ lastCb.words = << "incomplete" >>
  /\ lastCb.status = 200
  /\ \A i \in 1..Len(emitted) : emitted[i].type # "broken_image"
  /\ brokenImagesCount = 0

\* C7: once the user has pressed Stop the phase is idle, and the run goes
\* on to its end with the browser closed if it was launched.
StopEndsIdleAndClosesBrowser ==
  /\ [](stoppedAt # "none" => phase = "idle")
  /\ [](stoppedAt # "none" => <>(pc = "done" /\ browser # "open"))

\* Stop was pressed while a navigation was in flight, and the browser was
\* closed afterwards.
StopDuringNavigationReached ==
  /\ stoppedAt = "goto"
  /\ phase = "idle"
  /\ browser = "closed"

\* C8: once the consumer is gone, the loop starts no further navigation.
NoNavigationAfterDisconnect ==
  [][(consumerGone /\ pc = "loop") => pc' # "goto"]_vars

(***************************************************************************)
(* Properties of the discovery run.                                        *)
(***************************************************************************)
\* C9: a discovery run given a sitemap never launches the browser and never
\* navigates, whatever the fetch of the sitemap gives.
SitemapModeNeverNavigates ==
  dHasSitemap => (dBrowser = "none" /\ dNavLog = << >> /\ dVisited = {} /\ pagesVisited = 0)

\* A sitemap index was fetched, one of its children failing, and the run
\* ended with its done event.
SitemapModeReached ==
  /\ dHasSitemap
  /\ dpc = "done"
  /\ dDone # NoDone
  /\ PageB \in discoveredLinks
  /\ PageA \notin discoveredLinks

\* C10: in browser-crawl discovery the queue never holds a URL twice nor a
\* visited URL, and no two navigations target the same page, fragments
\* aside.
DiscoveryVisitsEachPageOnce ==
  /\ \A i \in 1..Len(pagesToVisit) :
       /\ pagesToVisit[i] \notin dVisited
       /\ cleanUrl(pagesToVisit[i]) \notin { cleanUrl(v) : v \in dVisited }
       /\ \A j \in 1..Len(pagesToVisit) : i # j => pagesToVisit[i] # pagesToVisit[j]
  /\ \A i, j \in 1..Len(dNavLog) :
       i # j => cleanUrl(dNavLog[i]) # cleanUrl(dNavLog[j])

\* A run started at a URL with a fragment has walked a page that links to
\* the start page without the fragment.
DiscoveryFragmentStartReached ==
  /\ dStartUrl = PageAFrag
  /\ dpc = "done"
  /\ Len(dNavLog) >= 2
  /\ PageA \in discoveredLinks

RECURSIVE Flatten(_)
Flatten(lists) == IF lists = << >> THEN << >> ELSE Head(lists) \o Flatten(Tail(lists))

\* The <loc>s the sitemap fetches gave that are pages of the start URL's
\* origin, in order.
FetchedPages ==
  SelectSeq(Flatten(dFetched),
            LAMBDA u : IsPrefix(dStartUrl.org, u.org) /\ u.ext \notin NON_HTML_EXTENSIONS)

WithoutFragment(u) == [u EXCEPT !.hash = ""]

\* C11: when the pages the sitemaps list are pairwise distinct and none is
\* the start URL (fragments aside), the done event of sitemap-mode discovery
\* has fromSitemap equal to their number k and total equal to k + 1.
SitemapCountsAreExact ==
  (dHasSitemap /\ dpc = "done" /\ dDone # NoDone) =>
    LET pages == FetchedPages
        k == Len(pages)
    IN (/\ \A i, j \in 1..k : i # j => WithoutFragment(pages[i]) # WithoutFragment(pages[j])
        /\ \A i \in 1..k : WithoutFragment(pages[i]) # WithoutFragment(dStartUrl))
       => (dDone.fromSitemap = k /\ dDone.total = k + 1)

\* An index of 2 children with 3 pages each was fetched whole, and the done
\* event counts 6 links from the sitemap and 7 in all.
SitemapIndexCountedReached ==
  /\ dHasSitemap
  /\ dpc = "done"
  /\ Len(dFetched) = 2
  /\ Len(dFetched[1]) = 3
  /\ Len(dFetched[2]) = 3
  /\ dDone.fromSitemap = 6
  /\ dDone.total = 7

(* ------------------------------------------------------------------ *)
(* C12                                                                 *)
(* ------------------------------------------------------------------ *)

\* The number of non-empty segments of a link's pathname.
Depth(u) == Len(u.path)

RawUrls ==
  { MkUrl(o, p, "", h) :
      o \in { <<"s">>, <<"S">>, << >> }, p \in { << >>, <<"a">> },
      h \in { "", "#", "top", "sec" } }

InitCleanUrl ==
  /\ CrawlIdle
  /\ DiscIdle
  /\ HookIdle
  /\ EmitIdle
  /\ IdxIdle
  /\ phase = "idle"
  /\ fnArgs \in { << u, v >> : u \in RawUrls, v \in RawUrls }
  /\ fnResults = << >>

CallCleanUrl ==
  /\ fnResults = << >>
  /\ fnResults' = << cleanUrl(fnArgs[1]), cleanUrl(fnArgs[2]) >>
  /\ UNCHANGED << crawlVars, discVars, hookVars, emitVars, idxVars, fnArgs >>

CallCleanUrlAgain ==
  /\ Len(fnResults) = 2
  /\ fnResults' = fnResults \o << cleanUrl(fnResults[1]), cleanUrl(fnResults[2]) >>
  /\ UNCHANGED << crawlVars, discVars, hookVars, emitVars, idxVars, fnArgs >>

CleanUrlNext ==
  \/ CallCleanUrl
  \/ CallCleanUrlAgain

SpecCleanUrl == InitCleanUrl /\ [][CleanUrlNext]_vars

\* Two strings that are the same up to their "#".
DifferOnlyInFragment(u, v) == u.org = v.org /\ u.path = v.path /\ u.ext = v.ext

\* C13: cleanUrl gives the same string for two parsable URLs that differ only
\* in their fragment, gives for its own result that result again, and gives
\* a string that cannot be parsed back unchanged.
CleanUrlLaws ==
  Len(fnResults) >= 2 =>
    /\ \A i \in 1..2 : ~Parsable(fnArgs[i]) => fnResults[i] = fnArgs[i]
    /\ (Parsable(fnArgs[1]) /\ Parsable(fnArgs[2])
          /\ DifferOnlyInFragment(fnArgs[1], fnArgs[2]))
         => fnResults[1] = fnResults[2]
    /\ Len(fnResults) = 4 => (fnResults[3] = fnResults[1] /\ fnResults[4] = fnResults[2])

\* Two spellings of one page with an upper-case host, one with a fragment
\* and one with a bare "#", cleaned twice.
CleanedTwiceReached ==
  /\ fnArgs = << MkUrl(<<"S">>, <<"a">>, "", "top"), MkUrl(<<"S">>, <<"a">>, "", "#") >>
  /\ Len(fnResults) = 4
  /\ fnResults[1] = PageA
  /\ fnResults[2] = PageA

(***************************************************************************)
(* The useCrawler hook under the Home page: the user's actions the page    *)
(* offers in each phase, and the events of the two streams.                *)
(***************************************************************************)
\* What the user may type as start URL; NoUrl is the empty field.
StartInputs == { NoUrl, Home, PageAFrag }

\* The links a discovery done event may carry.
DoneLinkLists == { << >>, << Home >>, << Home, PageA >>, << Home, PageA, PageB >> }

SeqToSet(sq) == { sq[i] : i \in 1..Len(sq) }

isDisabled_DiscoveringOnly(ph) == ph = "discovering"

\* Home: the start form is disabled, and Stop offered, in these phases.
isDisabled(ph) == ph = "discovering" \/ ph = "crawling"

setPhase(ph) ==
  /\ phase' = ph
  /\ prevPhase' = phase

InitHook ==
  /\ CrawlIdle
  /\ DiscIdle
  /\ FnIdle
  /\ IdxIdle
  /\ HookIdle
  /\ EmitIdle
  /\ phase = "idle"

\* handleStart of the page: discoverLinks.
HookDiscoverLinks ==
  /\ ~isDisabled(phase)
  /\ \E s \in StartInputs :
       /\ s # NoUrl
       /\ pendingStartUrl' = s
  /\ setPhase("discovering")
  /\ discoveryEventSource' = "open"
  /\ UNCHANGED << inputVars, loopVars, sseVars, histVars, stoppedAt, discVars, fnVars, idxVars, emitVars,
                  eventSource, isCrawling, hookLinks, selectedLinks, reading >>

\* es.onmessage of the discovery stream with a done event.
HookOnDiscoveryDone ==
  /\ discoveryEventSource = "open"
  /\ \E links \in DoneLinkLists :
       /\ hookLinks' = links
       /\ selectedLinks' = SeqToSet(links)
  /\ discoveryEventSource' = "null"
  /\ setPhase("preview")
  /\ UNCHANGED << inputVars, loopVars, sseVars, histVars, stoppedAt, discVars, fnVars, idxVars, emitVars,
                  eventSource, isCrawling, pendingStartUrl, reading >>

\* es.onmessage with an error event, or es.onerror.
HookOnDiscoveryError ==
  /\ discoveryEventSource = "open"
  /\ discoveryEventSource' = "null"
  /\ setPhase("idle")
  /\ UNCHANGED << inputVars, loopVars, sseVars, histVars, stoppedAt, discVars, fnVars, idxVars, emitVars,
                  eventSource, isCrawling, hookLinks, selectedLinks, pendingStartUrl,
                  reading >>

\* The Cancel button of the discovering view.
HookCancelDiscovery ==
  /\ phase = "discovering"
  /\ discoveryEventSource' = "null"
  /\ setPhase("idle")
  /\ hookLinks' = << >>
  /\ selectedLinks' = {}
  /\ pendingStartUrl' = NoUrl
  /\ UNCHANGED << inputVars, loopVars, sseVars, histVars, stoppedAt, discVars, fnVars, idxVars, emitVars,
                  eventSource, isCrawling, reading >>

\* onSelectionChange of the preview panel.
HookSetSelectedLinks ==
  /\ phase = "preview"
  /\ \E sel \in SUBSET SeqToSet(hookLinks) :
       /\ sel # selectedLinks
       /\ selectedLinks' = sel
  /\ UNCHANGED << crawlVars, discVars, fnVars, idxVars, emitVars, eventSource, discoveryEventSource,
                  isCrawling, hookLinks, pendingStartUrl, reading, prevPhase >>

\* onConfirm of the preview panel: startCrawlWithSelection.
HookStartCrawlWithSelection ==
  /\ phase = "preview"
  /\ selectedLinks # {}
  /\ setPhase("crawling")
  /\ isCrawling' = TRUE
  /\ eventSource' = "open"
  /\ reading' = TRUE
  /\ UNCHANGED << inputVars, loopVars, sseVars, histVars, stoppedAt, discVars, fnVars, idxVars, emitVars,
                  discoveryEventSource, hookLinks, selectedLinks, pendingStartUrl >>

\* onCancel of the preview panel (its Cancel button or the Escape key).
HookCancelPreview ==
  /\ phase = "preview"
  /\ setPhase("idle")
  /\ hookLinks' = << >>
  /\ selectedLinks' = {}
  /\ pendingStartUrl' = NoUrl
  /\ UNCHANGED << inputVars, loopVars, sseVars, histVars, stoppedAt, discVars, fnVars, idxVars, emitVars,
                  eventSource, discoveryEventSource, isCrawling, reading >>

\* The reader is given the done or error event of the crawl stream, the
\* last of the stream: the next read ends the loop.
HookOnCrawlTerminal ==
  /\ reading
  /\ reading' = FALSE
  /\ isCrawling' = FALSE
  /\ setPhase("idle")
  /\ UNCHANGED << inputVars, loopVars, sseVars, histVars, stoppedAt, discVars, fnVars, idxVars, emitVars,
                  eventSource, discoveryEventSource, hookLinks, selectedLinks,
                  pendingStartUrl >>

\* reader.read() gives done with no done or error event read: the loop is
\* left.
HookOnCrawlStreamEnd ==
  /\ reading
  /\ reading' = FALSE
  /\ UNCHANGED << crawlVars, discVars, fnVars, idxVars, emitVars, eventSource, discoveryEventSource,
                  isCrawling, hookLinks, selectedLinks, pendingStartUrl, prevPhase >>

\* The catch of startCrawlWithSelection: the fetch or a read was rejected.
HookOnCrawlCatch ==
  /\ reading
  /\ reading' = FALSE
  /\ isCrawling' = FALSE
  /\ setPhase("idle")
  /\ UNCHANGED << inputVars, loopVars, sseVars, histVars, stoppedAt, discVars, fnVars, idxVars, emitVars,
                  eventSource, discoveryEventSource, hookLinks, selectedLinks,
                  pendingStartUrl >>

\* The Stop button: handleStop.  The abort rejects the pending read, and the
\* catch of the reader runs before the next event is handled.
HookHandleStop ==
  /\ isDisabled(phase)
  /\ eventSource' = "null"
  /\ reading' = FALSE
  /\ discoveryEventSource' = "null"
  /\ isCrawling' = FALSE
  /\ setPhase("idle")
  /\ UNCHANGED << inputVars, loopVars, sseVars, histVars, stoppedAt, discVars, fnVars, idxVars, emitVars,
                  hookLinks, selectedLinks, pendingStartUrl >>

HookNext ==
  \/ HookDiscoverLinks
  \/ HookOnDiscoveryDone
  \/ HookOnDiscoveryError
  \/ HookCancelDiscovery
  \/ HookSetSelectedLinks
  \/ HookStartCrawlWithSelection
  \/ HookCancelPreview
  \/ HookOnCrawlTerminal
  \/ HookOnCrawlStreamEnd
  \/ HookOnCrawlCatch
  \/ HookHandleStop

SpecHook == InitHook /\ [][HookNext]_vars

\* The phase changes of the run-phase list.
ListedPhaseChanges ==
  { << "idle", "discovering" >>, << "discovering", "preview" >>,
    << "preview", "crawling" >>, << "crawling", "idle" >>,
    << "discovering", "idle" >>, << "idle", "crawling" >> }

\* C14: the last setPhase either kept the phase or changed it along one of:
\* idle to discovering, discovering to preview, preview to crawling,
\* crawling to idle, discovering to idle, idle to crawling.
OnlyListedPhaseChanges ==
  (prevPhase # "none" /\ prevPhase # phase) => << prevPhase, phase >> \in ListedPhaseChanges

\* C14, amended: the listed changes, and from preview also to idle (the
\* preview is cancelled) and to discovering (a new start is requested from
\* the preview).
OnlyListedOrPreviewLeavingChanges ==
  (prevPhase # "none" /\ prevPhase # phase) =>
    << prevPhase, phase >> \in
      ListedPhaseChanges \cup { << "preview", "idle" >>, << "preview", "discovering" >> }

\* After a crawl of an earlier selection, a new preview was cancelled.
PreviewCancelledReached ==
  /\ prevPhase = "preview"
  /\ phase = "idle"
  /\ hookLinks = << >>
  /\ pendingStartUrl = NoUrl
  /\ eventSource = "open"

(***************************************************************************)
(* The emitter of createSSEResponse on its own: sendEvent and close are    *)
(* called in any order, and the consumer may cancel the stream.            *)
(***************************************************************************)
MaxEvents == 3
MaxLateCalls == 2

EventTypes == { "log", "broken_link", "done" }

InitEmitter ==
  /\ CrawlIdle
  /\ DiscIdle
  /\ FnIdle
  /\ IdxIdle
  /\ HookIdle
  /\ EmitIdle
  /\ phase = "idle"

\* sendEvent(data)
EmitterSendEvent ==
  /\ IF isClosed
     THEN lateCalls < MaxLateCalls /\ lateCalls' = lateCalls + 1
     ELSE Len(stream) < MaxEvents /\ UNCHANGED lateCalls
  /\ \E t \in EventTypes :
       /\ stream' = SendStream(<< t >>)
       /\ isClosed' = SendClosed(<< t >>)
  /\ UNCHANGED << inputVars, loopVars, consumerGone, histVars, clientVars, discVars,
                  fnVars, idxVars, hookVars, controllerCloses >>

\* close(): controller.close() is called, and whether it throws or not the
\* emitter is closed.
EmitterClose ==
  /\ IF isClosed
     THEN /\ lateCalls < MaxLateCalls
          /\ lateCalls' = lateCalls + 1
          /\ UNCHANGED << isClosed, controllerCloses >>
     ELSE /\ isClosed' = TRUE
          /\ controllerCloses' = controllerCloses + 1
          /\ UNCHANGED lateCalls
  /\ UNCHANGED << inputVars, loopVars, stream, consumerGone, histVars, clientVars,
                  discVars, fnVars, idxVars, hookVars >>

\* The consumer cancels the stream; no cancel callback is registered.
EmitterConsumerCancel ==
  /\ ~consumerGone
  /\ consumerGone' = TRUE
  /\ UNCHANGED << inputVars, loopVars, stream, isClosed, histVars, clientVars, discVars,
                  fnVars, idxVars, hookVars, emitVars >>

EmitterNext ==
  \/ EmitterSendEvent
  \/ EmitterClose
  \/ EmitterConsumerCancel

SpecEmitter == InitEmitter /\ [][EmitterNext]_vars

\* C15: a closed emitter stays closed, a sendEvent or close on it enqueues
\* nothing and does not call controller.close(), and controller.close() is
\* called at most once.
ClosedEmitterStaysClosed ==
  [][/\ isClosed => (isClosed' /\ stream' = stream
                      /\ controllerCloses' = controllerCloses)
     /\ controllerCloses' <= 1]_vars

\* The consumer cancelled after two events, the next sendEvent closed the
\* emitter, and two more calls were made on it.
LateCallsOnFailedSendReached ==
  /\ isClosed
  /\ consumerGone
  /\ controllerCloses = 0
  /\ lateCalls = MaxLateCalls
  /\ Len(stream) = 2

(***************************************************************************)
(* Properties of the selective mode of the crawl run.                      *)
(***************************************************************************)
\* The last n elements of a sequence.
Suffix(sq, n) == SubSeq(sq, Len(sq) - n + 1, Len(sq))

\* C16: in selective mode every URL page.goto was called with is one of the
\* selected URLs, and the queue is what is left of the selection it was
\* seeded with: no link found on a page was pushed to it.
SelectiveRunStaysInSelection ==
  isSelectiveMode =>
    /\ \A i \in 1..Len(navLog) : InSeq(navLog[i].url, selectedUrls)
    /\ pc # "start" =>
         (Len(queue) <= Len(selectedUrls) /\ queue = Suffix(selectedUrls, Len(queue)))

\* The one selected page was rendered and links to a page that is not
\* selected; the run is over.
UnselectedLinkSeenReached ==
  /\ isSelectiveMode
  /\ selectedUrls = << PageA >>
  /\ pc = "done"
  /\ Len(navLog) = 1
  /\ navLog[1].status = 200
  /\ linkRegistry[PageB] # << >>

\* The content links of a rendered page: its internal links outside header
\* and nav.
ContentLinks(page) ==
  SelectSeq(InternalLinks(extractLinksWithContext(page, cssSelector)),
            LAMBDA l : ~l.isInHeader)

\* The pages that were rendered and whose links are dealt with.
ProcessedPages ==
  { navLog[i].url : i \in { j \in 1..Len(navLog) :
      navLog[j].status = 200 /\ (j < Len(navLog) \/ pc \notin {"goto", "validate"}) } }

Navigated(u) == \E i \in 1..Len(navLog) : navLog[i].url = u

DiscoveredLinksHaveStartOrigin ==
  /\ \A u \in discoveredLinks : u.org = dStartUrl.org
  /\ \A i \in 1..Len(pagesToVisit) : pagesToVisit[i].org = dStartUrl.org

(***************************************************************************)
(* The end of the crawl run.                                               *)
(***************************************************************************)
\* The done events enqueued on the stream.
DoneEvents == { i \in 1..Len(stream) : stream[i] = "done" }

\* The run is over and had entered its loop: the browser was launched and
\* the start URL parsed.
EndedAfterLoop == pc = "done" /\ browser = "closed" /\ Parsable(startUrl)

\* C19: a run that has entered its loop comes to its end with the queue
\* empty and the stream closed; there is never more than one done event, and
\* at the end of a run whose consumer stayed until then the done event is
\* there, once and as the last event of the stream.
CrawlRunEndsWithOneDone ==
  /\ [](pc = "loop" => <>(pc = "done" /\ queue = << >> /\ isClosed))
  /\ [](Cardinality(DoneEvents) <= 1)
  /\ []((EndedAfterLoop /\ stoppedAt \in {"none", "done"}) => DoneEvents = {Len(stream)})

\* A full run over the three pages of the site has ended with its done
\* event.
ThreePagesThenDoneReached ==
  /\ pc = "done"
  /\ stoppedAt = "none"
  /\ Len(navLog) = 3
  /\ queue = << >>
  /\ isClosed
  /\ DoneEvents = {Len(stream)}

(***************************************************************************)
(* Setup failures of the crawl run and of the discovery run, the consumer  *)
(* staying connected.                                                      *)
(***************************************************************************)
InitRuns == Init \/ InitDisc

RunsNext ==
  \/ CrawlNext
  \/ ClientOnTerminal
  \/ DiscNext

SpecRuns == InitRuns /\ [][RunsNext]_vars

\* The run is over and its setup had failed: the browser could not be
\* launched or the start URL could not be parsed.
CrawlSetupFailed == pc = "done" /\ (browser = "none" \/ ~Parsable(startUrl))

DiscSetupFailed ==
  dpc = "done" /\ (~Parsable(dStartUrl) \/ (~dHasSitemap /\ dBrowser = "none"))

\* C20: a run whose setup failed has put an error event and no done event
\* on its stream, has closed the stream, and has left no browser open.
SetupFailureEndsWithError ==
  /\ CrawlSetupFailed =>
       /\ stream = << "error" >>
       /\ isClosed
       /\ browser # "open"
  /\ DiscSetupFailed =>
       /\ dStream # << >>
       /\ dStream[Len(dStream)] = "error"
       /\ \A i \in 1..Len(dStream) : dStream[i] # "done"
       /\ dDone = NoDone
       /\ dIsClosed
       /\ dBrowser # "open"

\* A crawl was given a start URL that does not parse: the browser it had
\* launched is closed and the stream holds the error event.
InvalidStartUrlReached ==
  /\ pc = "done"
  /\ startUrl = BadUrl
  /\ browser = "closed"
  /\ stream = << "error" >>
  /\ isClosed


(***************************************************************************)
(* A sitemap that cannot be fetched.                                       *)
(***************************************************************************)
\* The crawl run is over and its load of the sitemap had failed.
CrawlSitemapFetchFailed == pc = "done" /\ sitemapLoad = "failed"

\* The discovery run is over and its fetch of the sitemap had failed.
DiscSitemapFetchFailed ==
  dpc = "done" /\ dHasSitemap /\ Parsable(dStartUrl) /\ dFetched = << >>

\* A crawl run whose sitemap could not be fetched ends with the done event.
CrawlRecoversFromSitemapFailure ==
  CrawlSitemapFetchFailed =>
    /\ stream # << >>
    /\ stream[Len(stream)] = "done"
    /\ \A i \in 1..Len(stream) : stream[i] # "error"

\* C21: a run whose fetch of the sitemap failed, crawl or discovery, goes on
\* and ends with a done event and without an error event.
SitemapFetchFailureIsRecovered ==
  /\ CrawlRecoversFromSitemapFailure
  /\ DiscSitemapFetchFailed =>
       /\ dStream # << >>
       /\ dStream[Len(dStream)] = "done"
       /\ \A i \in 1..Len(dStream) : dStream[i] # "error"


(***************************************************************************)
(* Queued URLs that are not pages.                                         *)
(***************************************************************************)
\* The checkUrlStatus calls made for u as a queued resource.
ResourceChecks(u) ==
  { i \in 1..Len(headLog) : headLog[i].kind = "resource" /\ headLog[i].url = u }

\* C22: a queued URL with a non-page extension is never navigated and is
\* checked at most once; when it is dequeued unvisited it is checked exactly
\* if it has a referrer and is not in checkedResources, and is marked visited
\* at once otherwise; when its check returns, one broken_link per referrer is
\* sent exactly if the status is >= 400, and it is marked visited.
NonPageResourceIsCheckedNotNavigated ==
  [][/\ \A i \in 1..Len(navLog') : ~isNonHtmlResource(navLog'[i].url)
     /\ \A i, j \in 1..Len(headLog') :
          (headLog'[i].kind = "resource" /\ headLog'[j] = headLog'[i]) => i = j
     /\ (pc = "loop" /\ queue # << >> /\ isNonHtmlResource(Head(queue))
           /\ Head(queue) \notin visited) =>
          LET u == Head(queue)
          IN /\ (pc' = "reshead") <=> (linkRegistry[u] # << >> /\ u \notin checkedResources)
             /\ pc' = "reshead" => url' = u
             /\ pc' # "reshead" =>
                  (u \in visited' /\ headLog' = headLog /\ emitted' = emitted)
     /\ (pc = "reshead" /\ pc' # "reshead") =>
          /\ headLog' = Append(headLog, HeadCall(url, NoUrl, "", "resource"))
          /\ url \in visited'
          /\ emitted' = emitted \o
               (IF lastCb'.status >= 400
                THEN [i \in 1..Len(linkRegistry[url]) |->
                        Finding("broken_link", url, linkRegistry[url][i].foundOnPage,
                                linkRegistry[url][i].linkText, lastCb'.status)]
                ELSE << >>)]_vars

\* The PDF the home page links to was queued, its check answered 404 and it
\* was reported against the home page.
BrokenDocumentReported ==
  /\ pc = "loop"
  /\ url = Doc
  /\ Doc \in visited
  /\ lastCb.kind = "reshead"
  /\ lastCb.status = 404
  /\ Cardinality(ResourceChecks(Doc)) = 1
  /\ \E i \in 1..Len(emitted) :
       emitted[i] = Finding("broken_link", Doc, Home, "doc", 404)


(***************************************************************************)
(* Pages whose navigation answers with an error status.                    *)
(***************************************************************************)
\* The references of a registry that were found on page p.
ReferencesFoundOn(reg, p) ==
  UNION { { << u, i >> : i \in { k \in 1..Len(reg[u]) : reg[u][k].foundOnPage = p } } :
            u \in AllUrls }

\* C23: a page whose navigation answered >= 400 has no reference found on
\* it in the registry and no existence check made for one of its links or
\* images, and the step in which its navigation returns leaves the queue and
\* the registry as they were and makes no check.
BrokenPageIsNotExtracted ==
  [][/\ \A i \in 1..Len(navLog') :
          navLog'[i].status >= 400 =>
            /\ ReferencesFoundOn(linkRegistry', navLog'[i].url) = {}
            /\ \A h \in 1..Len(headLog') : headLog'[h].page # navLog'[i].url
     /\ (pc = "goto" /\ pc' # "goto" /\ navLog'[Len(navLog')].status >= 400) =>
          /\ queue' = queue
          /\ linkRegistry' = linkRegistry
          /\ headLog' = headLog
          /\ linksToValidate' = linksToValidate
          /\ externalLinks' = externalLinks
          /\ images' = images
          /\ pc' = "loop"]_vars

\* The start page was rendered and /b, which it links to, answered 404: the
\* link of /b to /a is not in the registry.
BrokenPageWithLinksReached ==
  /\ pc = "done"
  /\ ~isSelectiveMode
  /\ \E i \in 1..Len(navLog) : navLog[i].url = PageB /\ navLog[i].status = 404
  /\ \E i \in 1..Len(emitted) : emitted[i].type = "broken_link" /\ emitted[i].url = PageB
  /\ ReferencesFoundOn(linkRegistry, PageB) = {}
  /\ PageLinks(PageB) # << >>


(***************************************************************************)
(* Pages whose navigation throws.                                          *)
(***************************************************************************)
\* The step in which page.goto throws.
NavigationThrows == pc = "goto" /\ pc' # "goto" /\ navLog'[Len(navLog')].status = 0

\* C24: when the navigation of a page throws, one navigation_issue is sent
\* for each reference the registry holds for the URL and nothing else, no
\* broken_link has been sent for the URL, and the run goes on with the
\* loop, its browser open and its queue as it was.
NavigationFailureIsReportedPerReferrer ==
  [][NavigationThrows =>
       /\ emitted' = emitted \o
            [i \in 1..Len(linkRegistry[url]) |->
               Finding("navigation_issue", url, linkRegistry[url][i].foundOnPage,
                       linkRegistry[url][i].linkText, 0)]
       /\ \A i \in 1..Len(emitted') :
            emitted'[i].type = "broken_link" => emitted'[i].url # url
       /\ pc' = "loop"
       /\ browser' = "open"
       /\ queue' = queue]_vars


(***************************************************************************)
(* Links inside header or nav.                                             *)
(***************************************************************************)
\* The internal links of a rendered page that are inside header or nav.
HeaderLinks(page) ==
  SelectSeq(InternalLinks(extractLinksWithContext(page, cssSelector)),
            LAMBDA l : l.isInHeader)

\* Whether a URL is the target of a content link of the page.
IsContentTarget(u, page) ==
  \E i \in 1..Len(ContentLinks(page)) : cleanUrl(ContentLinks(page)[i].href) = u

\* The step in which the links of a rendered page are walked.
PageLinksWalked == pc = "goto" /\ pc' # "goto" /\ navLog'[Len(navLog')].status = 200

\* Whether the page whose links are walked is one whose header links are
\* pushed: no sitemap URL was given and it is the first page navigated.
WalksFirstPage == ~hasSitemap /\ Len(navLog) = 1

\* A header or nav link is pushed to the queue only when the first page is
\* walked without a sitemap; otherwise it is not pushed, and no existence
\* check is ever made for it.
HeaderLinksNotQueuedAfterFirstPage ==
  [][/\ PageLinksWalked =>
          \A i \in 1..Len(HeaderLinks(url)) :
            LET t == cleanUrl(HeaderLinks(url)[i].href)
            IN IsContentTarget(t, url) \/
               /\ CountIn(t, queue') > CountIn(t, queue) => WalksFirstPage
               /\ ~WalksFirstPage => CountIn(t, queue') = CountIn(t, queue)
     /\ \A n \in 1..Len(navLog') :
          (navLog'[n].status = 200 /\ (hasSitemap \/ n > 1)) =>
            \A i \in 1..Len(HeaderLinks(navLog'[n].url)) :
              LET l == HeaderLinks(navLog'[n].url)[i]
              IN IsContentTarget(cleanUrl(l.href), navLog'[n].url) \/
                 \A h \in 1..Len(headLog') :
                   ~(/\ headLog'[h].url = cleanUrl(l.href)
                     /\ headLog'[h].page = navLog'[n].url
                     /\ headLog'[h].text = l.text)]_vars

\* C25: a header or nav link is pushed to the queue only if no sitemap URL
\* was given and the page walked is the first one navigated; in every other
\* case it is neither pushed nor given an existence check, and it is
\* registered as a reference found on the page.
HeaderLinksQueuedOnFirstPageOnly ==
  /\ HeaderLinksNotQueuedAfterFirstPage
  /\ [][(PageLinksWalked /\ ~WalksFirstPage) =>
          \A i \in 1..Len(HeaderLinks(url)) :
            LET l == HeaderLinks(url)[i]
                t == cleanUrl(l.href)
            IN IsContentTarget(t, url) \/
               \E r \in 1..Len(linkRegistry'[t]) :
                 /\ linkRegistry'[t][r].foundOnPage = url
                 /\ linkRegistry'[t][r].linkText = l.text]_vars

(***************************************************************************)
(* Links to other hosts.                                                   *)
(***************************************************************************)
\* The rendered pages whose external links have been dealt with.
ExternalsDone ==
  { navLog[n].url : n \in { k \in 1..Len(navLog) :
      /\ navLog[k].status = 200
      /\ (k < Len(navLog) \/ pc \notin {"goto", "validate", "external"}) } }

\* Whether the host of a URL is a domain of the skip list or a subdomain of
\* one: the domain after a dot.
HostOnSkipList(u) ==
  \E d \in SKIP_EXTERNAL_DOMAINS :
    \/ u.org = d
    \/ /\ Len(u.org) > Len(d) + 1
       /\ \A k \in 1..Len(d) : u.org[Len(u.org) - Len(d) + k] = d[k]
       /\ u.org[Len(u.org) - Len(d)] = "."

\* C26: of the links of a rendered page to other hosts, one that is inside
\* header or nav or whose host is on the skip list gets no existence check
\* and no finding, and every other one has had its URL checked once the
\* page's external links are dealt with.
ExternalLinksCheckedUnlessSkipped ==
  \A p \in ExternalsDone :
    LET links == extractLinksWithContext(p, cssSelector)
    IN \A i \in 1..Len(links) :
         LET l == links[i]
         IN (Parsable(l.href) /\ ~StartsWithOrigin(l.href, origin)) =>
              IF l.isInHeader \/ HostOnSkipList(l.href)
              THEN /\ \A h \in 1..Len(headLog) : headLog[h].url # l.href
                   /\ \A e \in 1..Len(emitted) : emitted[e].url # l.href
              ELSE \E h \in 1..Len(headLog) :
                     headLog[h].url = l.href /\ headLog[h].kind = "external"

\* The home page was walked whole: its link to x/e was checked, its links
\* to twitter.com, to m.twitter.com and the one of its nav to x/n were not.
SkipListedLinksSeenReached ==
  /\ pc = "done"
  /\ cssSelector = {}
  /\ Home \in ExternalsDone
  /\ \E h \in 1..Len(headLog) : headLog[h] = HeadCall(ExtPage, Home, "ext", "external")
  /\ \A h \in 1..Len(headLog) : headLog[h].url \notin {Twitter, MobileTwitter, ExtNav}
  /\ \E i \in 1..Len(PageLinks(Home)) : PageLinks(Home)[i].href = MobileTwitter

(***************************************************************************)
(* Uncaught script errors.                                                 *)
(***************************************************************************)
\* C27: an uncaught script error whose message matches a pattern of the
\* classifier sends no console_error, and one that matches none sends
\* exactly one console_error, with its message as it is.
ScriptErrorsPassTheClassifier ==
  [][lastCb'.kind = "pageerror" =>
       IF MatchesClassifier(lastCb'.words)
       THEN emitted' = emitted
       ELSE emitted' =
              Append(emitted, ConsoleFinding(lastCb'.words, currentPageUrl, "js_error"))]_vars


\* A sub-resource response the claim calls failed: same origin, status 400
\* or more, none of the request types or extensions the listener leaves out.
FailedSubResource(req, status) ==
  /\ StartsWithOrigin(req.url, origin)
  /\ status >= 400
  /\ req.resourceType \notin ({"document"} \cup SkippedResourceTypes)
  /\ ~IsSvg(req.url)
  /\ getResourceType(req.url, FALSE) # "document"

\* C28: a failed sub-resource response whose URL has registered referrers
\* produces one finding per registered referrer, each carrying that
\* referrer's page; a URL without a registered referrer produces one finding
\* attributed to the current page.
FailedResponseIsReportedPerReferrer ==
  [][(lastCb'.kind = "response"
        /\ FailedSubResource(Request(lastCb'.url, lastCb'.words[1]), lastCb'.status)) =>
       LET refs == getLinkReferences(linkRegistry, lastCb'.url)
           new == SubSeq(emitted', Len(emitted) + 1, Len(emitted'))
       IN IF refs # << >>
          THEN /\ Len(new) = Len(refs)
               /\ \A i \in 1..Len(new) :
                    new[i].url = lastCb'.url /\ new[i].foundOnPage = refs[i].foundOnPage
          ELSE /\ Len(new) = 1
               /\ new[1].url = lastCb'.url
               /\ new[1].foundOnPage = currentPageUrl]_vars


\* The responses the listener matches against the registry: neither an image
\* nor a document by URL, and a page link by URL or fetched by a script.
RegistryMatched(req) ==
  /\ getResourceType(req.url, FALSE) \notin {"image", "document"}
  /\ req.resourceType # "image"
  /\ (getResourceType(req.url, FALSE) = "link" \/ req.resourceType \in {"fetch", "xhr"})

\* C28 (amended): a failed sub-resource response the listener matches
\* against the registry produces nothing when its URL is already in
\* checkedResources; otherwise it produces one broken_link per registered
\* referrer carrying that referrer's page and text, or, when no referrer is
\* registered, one broken_link attributed to the current page.
UncheckedFailedResponseIsReportedPerReferrer ==
  [][(lastCb'.kind = "response"
        /\ FailedSubResource(Request(lastCb'.url, lastCb'.words[1]), lastCb'.status)
        /\ RegistryMatched(Request(lastCb'.url, lastCb'.words[1]))) =>
       LET refs == getLinkReferences(linkRegistry, lastCb'.url)
           new == SubSeq(emitted', Len(emitted) + 1, Len(emitted'))
       IN IF lastCb'.url \in checkedResources
          THEN new = << >>
          ELSE IF refs # << >>
          THEN new = [i \in 1..Len(refs) |->
                        Finding("broken_link", lastCb'.url, refs[i].foundOnPage,
                                refs[i].linkText, lastCb'.status)]
          ELSE new = << Finding("broken_link", lastCb'.url, currentPageUrl,
                                "[Detected from network]", lastCb'.status) >>]_vars

\* While the home page loads, its script's fetch of /b answers 404; /b was
\* rendered earlier and is reported against the page that links to it.
FetchReportedAgainstReferrer ==
  /\ lastCb.kind = "response"
  /\ lastCb.url = PageB
  /\ lastCb.status = 404
  /\ cleanUrl(currentPageUrl) = Home
  /\ \A i \in 1..Len(navLog) : navLog[i].url = PageB => navLog[i].status = 200
  /\ emitted # << >>
  /\ emitted[Len(emitted)].type = "broken_link"
  /\ emitted[Len(emitted)].url = PageB
  /\ emitted[Len(emitted)].linkText = "b2"
  /\ emitted[Len(emitted)].foundOnPage # currentPageUrl


\* A full crawl without a sitemap that starts at the library page.
InitLibrary ==
  /\ startUrl = Library
  /\ isSelectiveMode = FALSE
  /\ selectedUrls = << >>
  /\ allDiscoveredUrls = {}
  /\ sitemapUrl = NoUrl
  /\ cssSelector \in Selectors
  /\ LoopInitial

\* The runs of Spec and those that start at the library page.
InitWithLibrary == Init \/ InitLibrary

SpecLibrary == InitWithLibrary /\ [][Next]_vars

\* C29: in a full crawl without a sitemap, when the done event is sent every
\* same-origin content link (outside header and nav, not anchor-only) found
\* on a rendered page has been visited: navigated if it is a page, given an
\* existence check if it is a non-page resource.
ContentLinksVisitedBeforeDone ==
  (~isSelectiveMode /\ sitemapUrl = NoUrl /\ DoneEvents # {}) =>
    \A n \in 1..Len(navLog) :
      navLog[n].status = 200 =>
        \A i \in 1..Len(ContentLinks(navLog[n].url)) :
          LET t == cleanUrl(ContentLinks(navLog[n].url)[i].href)
          IN IF isNonHtmlResource(t)
             THEN t \in visited /\ ResourceChecks(t) # {}
             ELSE t \in visited /\ Navigated(t)


\* A discovery run of a site of thousands of pages, at the head of its loop
\* a few visits before the safety limit.  The sets name the pages of the
\* model only (the start page is visited, its two links wait in the
\* frontier); pagesVisited counts every page the run has visited.
InitDiscNearCap ==
  /\ CrawlIdle
  /\ FnIdle
  /\ IdxIdle
  /\ HookIdle
  /\ EmitIdle
  /\ phase = "discovering"
  /\ dpc = "loop"
  /\ dStartUrl = Home
  /\ dHasSitemap = FALSE
  /\ dSelector \in Selectors
  /\ discoveredLinks = {Home, PageB, PageA}
  /\ dVisited = {Home}
  /\ pagesToVisit = << PageB, PageA >>
  /\ pagesVisited \in (MAX_PAGES_SAFETY - 5)..(MAX_PAGES_SAFETY - 1)
  /\ sitemapLinksCount = 0
  /\ newLinksFromPages = 2
  /\ dBrowser = "open"
  /\ dUrl = Home
  /\ dStream = << "status", "status", "status", "status" >>
  /\ dIsClosed = FALSE
  /\ dNavLog = << Home >>
  /\ dDone = NoDone
  /\ dFetched = << >>

InitDiscAll == InitDisc \/ InitDiscNearCap

\* page.goto and browser.close() return or throw within their timeouts, so
\* the discovery run always takes its next step.
FairSpecDisc == InitDiscAll /\ [][DiscNext]_vars /\ WF_vars(DiscNext)

\* The discovery run has sent its done event and nothing after it.
DiscDoneSent == dpc = "done" /\ dStream # << >> /\ dStream[Len(dStream)] = "done"

VisitStatuses ==
  (IF ScanningStatusDue(pagesVisited) THEN 1 ELSE 0) + (Len(dStream') - Len(dStream))

DiscVisitEnds == dpc = "goto" /\ dpc' = "loop"

DiscoveredGrew == Cardinality(discoveredLinks') > Cardinality(discoveredLinks)

PARALLEL_LIMIT == 5

\* The sitemap indexes served: of 2, 6 and 7 child sitemaps (what each child
\* serves when its fetch succeeds).
LongIndex ==
  << << Home, PageA >>, << PageB, Doc >>, << PageC >>, << PageA >>, << PageD >>,
     << PageCD >> >>

IndexesServed == { ChildSitemaps, LongIndex, LongIndex \o << << PageAB, ExtPage >> >> }

Min(a, b) == IF a < b THEN a ELSE b

\* Every remaining child at once.
BatchOf_AllRemaining(urls, i) == (i + 1)..Len(urls)

\* childSitemapUrls.slice(i, i + PARALLEL_LIMIT), as the positions it takes.
BatchOf(urls, i) == (i + 1)..Min(i + PARALLEL_LIMIT, Len(urls))

InFlight == { k \in 1..Len(fetchState) : fetchState[k] = "inflight" }

\* The run after fetchXml(sitemapUrl) gave a sitemap index and the status
\* event for it was sent.
InitIndex ==
  /\ CrawlIdle
  /\ FnIdle
  /\ HookIdle
  /\ EmitIdle
  /\ phase = "discovering"
  /\ dpc = "batch"
  /\ dStartUrl = Home
  /\ dHasSitemap = TRUE
  /\ dSelector = {}
  /\ discoveredLinks = {Home}
  /\ dVisited = {}
  /\ pagesToVisit = << >>
  /\ pagesVisited = 0
  /\ sitemapLinksCount = 0
  /\ newLinksFromPages = 0
  /\ dBrowser = "none"
  /\ dUrl = NoUrl
  /\ dStream = << "status", "status", "status", "status" >>
  /\ dIsClosed = FALSE
  /\ dNavLog = << >>
  /\ dDone = NoDone
  /\ dFetched = << >>
  /\ childSitemapUrls \in IndexesServed
  /\ batchStart = 0
  /\ fetchState = [k \in 1..Len(childSitemapUrls) |-> "idle"]

\* batch.map(...): fetchXml is called for every child of the batch.
IndexLaunchBatch ==
  /\ dpc = "batch"
  /\ batchStart < Len(childSitemapUrls)
  /\ fetchState' = [k \in 1..Len(fetchState) |->
                      IF k \in BatchOf(childSitemapUrls, batchStart)
                      THEN "inflight" ELSE fetchState[k]]
  /\ dpc' = "await"
  /\ UNCHANGED << crawlVars, fnVars, hookVars, emitVars, childSitemapUrls, batchStart,
                  dFetched, dStartUrl, dHasSitemap, dSelector, discoveredLinks, dVisited,
                  pagesToVisit, pagesVisited, sitemapLinksCount, newLinksFromPages,
                  dBrowser, dUrl, dStream, dIsClosed, dNavLog, dDone >>

\* The fetchXml of one child resolves, or rejects and is caught.
IndexFetchSettles ==
  /\ dpc = "await"
  /\ \E k \in InFlight, ok \in BOOLEAN :
       fetchState' = [fetchState EXCEPT ![k] = IF ok THEN "ok" ELSE "failed"]
  /\ UNCHANGED << crawlVars, fnVars, hookVars, emitVars, childSitemapUrls, batchStart,
                  dFetched, dpc, dStartUrl, dHasSitemap, dSelector, discoveredLinks,
                  dVisited, pagesToVisit, pagesVisited, sitemapLinksCount,
                  newLinksFromPages, dBrowser, dUrl, dStream, dIsClosed, dNavLog, dDone >>

\* A child whose fetch failed is read all the same.
ChildResult_ServesAnyway(k) == childSitemapUrls[k]

\* What the callback of child k returned.
ChildResult(k) == IF fetchState[k] = "ok" THEN childSitemapUrls[k] ELSE << >>

RECURSIVE CountedIn(_)
CountedIn(ks) ==
  IF ks = {} THEN 0
  ELSE LET k == CHOOSE x \in ks : TRUE
       IN Len(CountedLocs(ChildResult(k))) + CountedIn(ks \ {k})

\* Promise.all resolves: the results of the batch are merged and the status
\* event of the batch is sent.
IndexMergeBatch ==
  /\ dpc = "await"
  /\ InFlight = {}
  /\ LET batch == BatchOf(childSitemapUrls, batchStart)
     IN /\ discoveredLinks' =
             discoveredLinks \cup UNION { CleanedSet(CountedLocs(ChildResult(k))) : k \in batch }
        /\ sitemapLinksCount' = sitemapLinksCount + CountedIn(batch)
        /\ dFetched' = dFetched \o
             [j \in 1..Cardinality(batch) |-> ChildResult(batchStart + j)]
  /\ dStream' = DSend(<< "status" >>)
  /\ batchStart' = batchStart + PARALLEL_LIMIT
  /\ dpc' = "batch"
  /\ UNCHANGED << crawlVars, fnVars, hookVars, emitVars, childSitemapUrls, fetchState,
                  dStartUrl, dHasSitemap, dSelector, dVisited, pagesToVisit, pagesVisited,
                  newLinksFromPages, dBrowser, dUrl, dIsClosed, dNavLog, dDone >>

\* The loop is over: the sitemap_done status, the sort, the done event.
IndexFinish ==
  /\ dpc = "batch"
  /\ batchStart >= Len(childSitemapUrls)
  /\ dDone' = DoneEvent(discoveredLinks, sitemapLinksCount, 0, 0)
  /\ dStream' = DSend(<< "status", "done" >>)
  /\ dIsClosed' = TRUE
  /\ dpc' = "done"
  /\ UNCHANGED << crawlVars, fnVars, hookVars, emitVars, idxVars, dFetched, dStartUrl,
                  dHasSitemap, dSelector, discoveredLinks, dVisited, pagesToVisit,
                  pagesVisited, sitemapLinksCount, newLinksFromPages, dBrowser, dUrl,
                  dNavLog >>

IndexNext ==
  \/ IndexLaunchBatch
  \/ IndexFetchSettles
  \/ IndexMergeBatch
  \/ IndexFinish

SpecIndex == InitIndex /\ [][IndexNext]_vars

\* C32: while a sitemap index is processed at most PARALLEL_LIMIT child
\* fetches are in flight, all of them of the current batch, and the
\* discovered set and its counter change only when no fetch is in flight.
AtMostFiveFetchesInFlight ==
  /\ [](/\ Cardinality(InFlight) <= PARALLEL_LIMIT
        /\ InFlight \subseteq BatchOf(childSitemapUrls, batchStart))
  /\ [][(discoveredLinks' # discoveredLinks \/ sitemapLinksCount' # sitemapLinksCount) =>
          (InFlight = {}
             /\ \A k \in (batchStart + 1)..Min(batchStart', Len(childSitemapUrls)) :
                  fetchState[k] \in {"ok", "failed"})]_vars

\* The first five fetches of an index of 7 children are in flight, nothing
\* is merged yet and the last two have not been asked for.
FullBatchInFlight ==
  /\ Len(childSitemapUrls) = 7
  /\ InFlight = 1..PARALLEL_LIMIT
  /\ fetchState[6] = "idle"
  /\ fetchState[7] = "idle"
  /\ discoveredLinks = {Home}


\* Every fetchXml of a child settles: it resolves, or it rejects and the
\* callback's catch returns an empty list.
FairSpecIndex == SpecIndex /\ WF_vars(IndexNext)

\* The pages the children whose fetch succeeded list.
PagesOfFetchedChildren ==
  UNION { CleanedSet(CountedLocs(childSitemapUrls[k])) :
            k \in { j \in 1..Len(childSitemapUrls) : fetchState[j] = "ok" } }

\* C33: a child sitemap whose fetch fails contributes no URLs, every other
\* child is still fetched and merged, and the run ends with the done event
\* and no error event.
ChildFailureIsNotFatal ==
  /\ [](dpc = "done" =>
          /\ DiscDoneSent
          /\ \A i \in 1..Len(dStream) : dStream[i] # "error"
          /\ \A k \in 1..Len(childSitemapUrls) :
               /\ fetchState[k] \in {"ok", "failed"}
               /\ fetchState[k] = "failed" => dFetched[k] = << >>
               /\ fetchState[k] = "ok" => dFetched[k] = childSitemapUrls[k]
          /\ discoveredLinks = {Home} \cup PagesOfFetchedChildren
          /\ dDone.total = Cardinality(discoveredLinks))
  /\ (\E k \in 1..Len(fetchState) : fetchState[k] = "failed") ~> DiscDoneSent

\* Of an index of 6 children the third failed, in the first batch; the run
\* is over, the child of the second batch is merged and /c, which only the
\* third child lists, is not among the links.
FailedChildLeftOut ==
  /\ dpc = "done"
  /\ Len(childSitemapUrls) = 6
  /\ fetchState = << "ok", "ok", "failed", "ok", "ok", "ok" >>
  /\ PageC \notin discoveredLinks
  /\ PageCD \in discoveredLinks
  /\ dStream[Len(dStream)] = "done"


(***************************************************************************)
(* fetchXml on its own.  fnArgs is the URL it is called with, as its       *)
(* scheme; fnResults is the promise: the requests makeRequest has issued   *)
(* (the scheme of each target), redirectCount of the last one, the last    *)
(* response received, and how the promise settled.                         *)
(***************************************************************************)
MAX_REDIRECTS == 5

Schemes == {"http", "https"}

\* A response: a 3xx with a location header, a body (a 200, or a 3xx with no
\* location header), or an error of the request.
Redirect(scheme) == [kind |-> "redirect", location |-> scheme, body |-> ""]
Body(data) == [kind |-> "body", location |-> "", body |-> data]
RequestError == [kind |-> "error", location |-> "", body |-> ""]
NoResponse == [kind |-> "none", location |-> "", body |-> ""]

XmlResponses ==
  { Redirect(sch) : sch \in Schemes } \cup { Body("xml"), Body("moved"), RequestError }

Promise(requests, redirectCount, last, settled, value) ==
  [requests |-> requests, redirectCount |-> redirectCount, last |-> last,
   settled |-> settled, value |-> value]

\* The guard one redirect too early.
TooManyRedirects_AtFive(redirectCount) == redirectCount >= MAX_REDIRECTS

\* if (redirectCount > 5) reject
TooManyRedirects(redirectCount) == redirectCount > MAX_REDIRECTS

\* makeRequest(targetUrl, redirectCount) on a pending promise.
makeRequest(pr, target, redirectCount, response) ==
  IF TooManyRedirects(redirectCount)
  THEN Promise(pr.requests, pr.redirectCount, response, "rejected", "Too many redirects")
  ELSE Promise(Append(pr.requests, target), redirectCount, response, "pending", "")

\* fetchXml(url) is called: makeRequest(url) issues the first request.
InitFetchXml ==
  /\ CrawlIdle
  /\ DiscIdle
  /\ HookIdle
  /\ EmitIdle
  /\ IdxIdle
  /\ phase = "idle"
  /\ fnArgs \in { << sch >> : sch \in Schemes }
  /\ fnResults = makeRequest(Promise(<< >>, 0, NoResponse, "pending", ""), fnArgs[1], 0,
                             NoResponse)

\* The callback of the pending request, or its error event.
FetchXmlResponse ==
  /\ fnResults.settled = "pending"
  /\ \E response \in XmlResponses :
       fnResults' =
         CASE response.kind = "redirect" ->
                makeRequest(fnResults, response.location, fnResults.redirectCount + 1,
                            response)
           [] response.kind = "body" ->
                Promise(fnResults.requests, fnResults.redirectCount, response, "resolved",
                        response.body)
           [] response.kind = "error" ->
                Promise(fnResults.requests, fnResults.redirectCount, response, "rejected",
                        "error")
  /\ UNCHANGED << crawlVars, discVars, hookVars, emitVars, idxVars, fnArgs >>

SpecFetchXml == InitFetchXml /\ [][FetchXmlResponse]_vars

\* C34: fetchXml follows at most 5 redirects.  A redirect is followed by a
\* new request while fewer than 5 have been followed; the response that
\* ends a chain of up to 5 redirects resolves the promise with its body; a
\* sixth redirect rejects it and no further request is issued.
FetchXmlFollowsFiveRedirects ==
  /\ [](Len(fnResults.requests) <= 6 /\ fnResults.redirectCount = Len(fnResults.requests) - 1)
  /\ [][LET r == fnResults'.last
        IN /\ (r.kind = "redirect" /\ fnResults.redirectCount < 5) =>
                /\ fnResults'.requests = Append(fnResults.requests, r.location)
                /\ fnResults'.settled = "pending"
           /\ (r.kind = "redirect" /\ fnResults.redirectCount >= 5) =>
                /\ fnResults'.requests = fnResults.requests
                /\ fnResults'.settled = "rejected"
                /\ fnResults'.value = "Too many redirects"
           /\ r.kind = "body" =>
                /\ fnResults'.requests = fnResults.requests
                /\ fnResults'.settled = "resolved"
                /\ fnResults'.value = r.body]_vars

\* The sixth request, issued for the fifth redirect, was answered with the
\* sitemap and the promise resolved with it.
ResolvedAfterFiveRedirects ==
  /\ fnResults.settled = "resolved"
  /\ fnResults.redirectCount = 5
  /\ Len(fnResults.requests) = 6
  /\ fnResults.value = "xml"


\* The crawl and discovery runs without listener calls, and the crawl that
\* starts at the library page.
InitRunsWithLibrary == InitRuns \/ InitLibrary

SpecRunsLibrary == InitRunsWithLibrary /\ [][RunsNext]_vars

\* C35: the registry never holds two references of one target with the same
\* (foundOnPage, linkText); a step only appends to the reference list of a
\* target, so the references keep their order and none is ever removed.
RegistryIsAppendOnlyAndDeduplicated ==
  /\ [](\A u \in AllUrls : \A i, j \in 1..Len(linkRegistry[u]) :
          (/\ linkRegistry[u][i].foundOnPage = linkRegistry[u][j].foundOnPage
           /\ linkRegistry[u][i].linkText = linkRegistry[u][j].linkText) => i = j)
  /\ [][\A u \in AllUrls :
          /\ Len(linkRegistry'[u]) >= Len(linkRegistry[u])
          /\ SubSeq(linkRegistry'[u], 1, Len(linkRegistry[u])) = linkRegistry[u]]_vars

\* The library page was walked: of its two anchors to the PDF with the text
\* "paper" the registry holds one reference.
DuplicateAnchorRegisteredOnce ==
  /\ startUrl = Library
  /\ Len(navLog) = 1
  /\ navLog[1].status = 200
  /\ pc = "loop"
  /\ Cardinality({ i \in 1..Len(PageLinks(Library)) :
                     PageLinks(Library)[i].href = Doc /\ PageLinks(Library)[i].text = "paper" }) = 2
  /\ Len(linkRegistry[Doc]) = 1
  /\ linkRegistry[Doc][1].foundOnPage = Library
  /\ linkRegistry[Doc][1].linkText = "paper"


\* C36: during one crawl run no URL receives more than one existence check,
\* whichever path makes it (non-page resource, validated internal link,
\* external link, image).
NoUrlCheckedTwice ==
  \A i, j \in 1..Len(headLog) : headLog[i].url = headLog[j].url => i = j


\* C37: whatever the interleaving of the listeners with the loop, whoever
\* reports a URL as broken claims it first: a broken_link or broken_image
\* finding is sent only for a URL that was not yet in checkedResources, so a
\* URL is never reported by the loop and by a listener both.
BrokenUrlReportedByOneClaimant ==
  [][\A i \in (Len(emitted) + 1)..Len(emitted') :
       emitted'[i].type \in {"broken_link", "broken_image"} =>
         (emitted'[i].url \notin checkedResources /\ emitted'[i].url \in checkedResources')]_vars


\* Every await of a run settles, so a crawl or discovery run that can take a
\* step takes one; no consumer leaves.
FairSpecRuns == SpecRuns /\ WF_vars(RunsNext)

TerminalEvents(st) == { i \in 1..Len(st) : st[i] \in {"done", "error"} }

\* At most one terminal event, and it is the last event of the stream.
EndsAtTerminal(st) ==
  /\ Cardinality(TerminalEvents(st)) <= 1
  /\ TerminalEvents(st) # {} => TerminalEvents(st) = {Len(st)}

\* C38: a crawl or discovery run whose consumer stays connected sends
\* exactly one terminal event, done or error and never both; the stream is
\* closed with it, so that nothing is enqueued after it.
ExactlyOneTerminalEvent ==
  /\ [](EndsAtTerminal(stream) /\ EndsAtTerminal(dStream))
  /\ [](TerminalEvents(stream) # {} => isClosed)
  /\ [](TerminalEvents(dStream) # {} => dIsClosed)
  /\ [](pc = "done" => Cardinality(TerminalEvents(stream)) = 1)
  /\ [](dpc = "done" => Cardinality(TerminalEvents(dStream)) = 1)
  /\ [][(isClosed => stream' = stream) /\ (dIsClosed => dStream' = dStream)]_vars
  /\ <>(pc = "done" \/ dpc = "done")

\* A crawl that could not launch its browser is over: its stream ends with
\* the error event and holds no done event.
CrawlEndedWithErrorOnly ==
  /\ pc = "done"
  /\ Parsable(startUrl)
  /\ browser = "none"
  /\ ~consumerGone
  /\ stream # << >>
  /\ stream[Len(stream)] = "error"
  /\ \A i \in 1..Len(stream) : stream[i] # "done"


\* The finding events of one type handed to sendEvent so far, and those
\* enqueued on the stream.
FindingsSent(type) == Cardinality({ i \in 1..Len(emitted) : emitted[i].type = type })

FindingsStreamed(type) == Cardinality({ i \in 1..Len(stream) : stream[i] = type })

\* C39: each running counter equals the number of finding events of its kind
\* sent so far, and the counts of a delivered done event are the numbers of
\* findings the consumer was streamed.
CountersMatchFindingEvents ==
  /\ brokenLinksCount = FindingsSent("broken_link")
  /\ brokenImagesCount = FindingsSent("broken_image")
  /\ navigationIssuesCount = FindingsSent("navigation_issue")
  /\ (\E i \in 1..Len(stream) : stream[i] = "done") =>
       /\ brokenLinksCount = FindingsStreamed("broken_link")
       /\ brokenImagesCount = FindingsStreamed("broken_image")
       /\ navigationIssuesCount = FindingsStreamed("navigation_issue")

\* A finished crawl whose listeners reported one failed URL against several
\* referring pages, next to a broken image.
DoneAfterListenerFindings ==
  /\ pc = "done"
  /\ stream # << >>
  /\ stream[Len(stream)] = "done"
  /\ brokenImagesCount >= 1
  /\ \E i, j \in 1..Len(emitted) :
       /\ i # j
       /\ emitted[i].type = "broken_link"
       /\ emitted[j].type = "broken_link"
       /\ emitted[i].url = emitted[j].url
       /\ emitted[i].foundOnPage # emitted[j].foundOnPage


(***************************************************************************)
(* handleStop in two steps: the click handler aborts the fetch, and the    *)
(* rejected read of the reader loop reaches its catch as a microtask.      *)
(***************************************************************************)
\* The crawl stream was aborted and the catch of its reader has not run.
AbortCatchPending == reading /\ eventSource = "null"

\* The next task would run with the microtask still queued.
NextTaskMayRun_Anytime(catchPending) == TRUE

\* The microtask queue is drained at the end of the aborting task, before the
\* next click or stream event is handled.
NextTaskMayRun(catchPending) == ~catchPending

\* handleStop with a crawl stream being read: abort() rejects the pending
\* fetch or read, the state setters run.
HookStopAborts ==
  /\ isDisabled(phase)
  /\ reading
  /\ eventSource = "open"
  /\ eventSource' = "null"
  /\ discoveryEventSource' = "null"
  /\ isCrawling' = FALSE
  /\ setPhase("idle")
  /\ UNCHANGED << inputVars, loopVars, sseVars, histVars, stoppedAt, discVars, fnVars,
                  idxVars, emitVars, hookLinks, selectedLinks, pendingStartUrl, reading >>

\* The catch of the aborted reader: an AbortError is not logged.
HookAbortedCatch ==
  /\ AbortCatchPending
  /\ reading' = FALSE
  /\ isCrawling' = FALSE
  /\ setPhase("idle")
  /\ UNCHANGED << inputVars, loopVars, sseVars, histVars, stoppedAt, discVars, fnVars,
                  idxVars, emitVars, eventSource, discoveryEventSource, hookLinks,
                  selectedLinks, pendingStartUrl >>

HookStopNext ==
  \/ NextTaskMayRun(AbortCatchPending) /\ HookNext
  \/ HookStopAborts
  \/ HookAbortedCatch

SpecHookStop == InitHook /\ [][HookStopNext]_vars

\* C40: while the catch of a stopped crawl stream is pending no new run has
\* begun, and when it runs it changes neither the phase nor the crawling flag
\* nor the links of the hook: it finds the idle state handleStop left.
StoppedStreamLeavesNewRunAlone ==
  /\ [](AbortCatchPending =>
          phase = "idle" /\ ~isCrawling /\ discoveryEventSource = "null")
  /\ [][AbortCatchPending /\ ~AbortCatchPending' =>
          /\ phase' = phase
          /\ isCrawling' = isCrawling
          /\ discoveryEventSource' = discoveryEventSource
          /\ hookLinks' = hookLinks
          /\ selectedLinks' = selectedLinks]_vars

\* Stop was pressed during a crawl of previewed links and the catch of the
\* reader is still to run.
StoppedCrawlCatchPending ==
  /\ AbortCatchPending
  /\ prevPhase = "crawling"
  /\ hookLinks # << >>
  /\ selectedLinks # {}

=============================================================================
